---- MODULE Spec2Model ----
(***************************************************************************)
(* Model of src/main.py: the chat gateway of Vaani.pro.                    *)
(*                                                                         *)
(* Handlers modelled: chat (POST /api/chat), stream_chat_response,         *)
(* react_agent_search (POST /api/react-search), the event_generator of     *)
(* react_agent_search_streaming, and the helper format_source_urls.        *)
(*                                                                         *)
(* A text (Python str) is a sequence of one-character strings.  An opaque  *)
(* text (an exception's message, a fixed literal of the code) is a         *)
(* sequence holding one token.  Each action is the code a coroutine runs   *)
(* between two suspension points (await / yield).                          *)
(***************************************************************************)
EXTENDS Integers, Sequences, FiniteSets, TLC

(***************************************************************************)
(* Bounds of the model.                                                    *)
(***************************************************************************)
MaxLen == 4       \* characters of a reply text, in SpecChunk
MaxFrags == 2     \* fragments a provider stream delivers
MaxPolls == 4     \* timeouts of the polling loop of stream_chat_response
MaxReactPolls == 2  \* timeouts of the polling loop of the event_generator
MaxMsgs == 3      \* messages of a request, in SpecNormalize

(***************************************************************************)
(* Text helpers: Python's str operations on sequences of characters.       *)
(***************************************************************************)
Whitespace == {" ", "\n", "\t"}

RECURSIVE LStrip(_)
\* str.lstrip(): drop leading whitespace
LStrip(s) ==
    IF s = <<>> THEN <<>>
    ELSE IF Head(s) \in Whitespace THEN LStrip(Tail(s)) ELSE s

RECURSIVE RStrip(_)
\* str.rstrip(): drop trailing whitespace
RStrip(s) ==
    IF s = <<>> THEN <<>>
    ELSE IF s[Len(s)] \in Whitespace THEN RStrip(SubSeq(s, 1, Len(s) - 1)) ELSE s

\* str.strip()
Strip(s) == RStrip(LStrip(s))

\* the positions of the separator ' ' in s
SpacesOf(s) == {i \in 1..Len(s) : s[i] = " "}

\* the position of the k-th separator; 0 before the first, Len(s) + 1 after the last
Boundary(s, k) ==
    IF k = 0 THEN 0
    ELSE IF k > Cardinality(SpacesOf(s)) THEN Len(s) + 1
    ELSE CHOOSE i \in SpacesOf(s) : Cardinality({j \in SpacesOf(s) : j < i}) = k - 1

\* str.split(' '): the texts between the separators, one more than the separators;
\* '' gives ['']
Split(s) ==
    [k \in 1..(Cardinality(SpacesOf(s)) + 1) |->
        SubSeq(s, Boundary(s, k - 1) + 1, Boundary(s, k) - 1)]

RECURSIVE Flatten(_)
\* ''.join(parts)
Flatten(parts) ==
    IF parts = <<>> THEN <<>> ELSE Head(parts) \o Flatten(Tail(parts))

RECURSIVE JoinLines(_)
\* "\n".join(parts)
JoinLines(parts) ==
    IF parts = <<>> THEN <<>>
    ELSE IF Len(parts) = 1 THEN Head(parts)
    ELSE Head(parts) \o <<"\n">> \o JoinLines(Tail(parts))

\* s[:n]
Prefix(s, n) == SubSeq(s, 1, IF Len(s) < n THEN Len(s) ELSE n)

\* the text of a literal of the code, as one token
Lit(token) == <<token>>

\* the characters of a word that trigger a flush (lines 438, 767)
TerminalChars == {".", "!", "?", "\n"}

\* any(char in word for char in ['.', '!', '?', '\n'])
HasTerminal(word) == \E i \in 1..Len(word) : word[i] \in TerminalChars

(***************************************************************************)
(* Values.                                                                 *)
(***************************************************************************)
\* Python's None, for an Optional[str]
NoneValue == "<None>"
\* an event of the stream that has no "thread_id" key
Absent == "<absent>"
\* str(uuid.uuid4()): one fresh identifier per request
NewUuid == "uuid-1"

NoMessage == [role |-> "", content |-> <<>>]
NoResponse == [message |-> NoMessage, thread_id |-> Absent]

\* Message(role="assistant", content=content)
AssistantMessage(content) == [role |-> "assistant", content |-> content]

\* ChatResponse(message=Message(role="assistant", content=content), thread_id=tid)
ChatResponse(content, tid) == [message |-> AssistantMessage(content), thread_id |-> tid]

\* json.dumps({"type": "status", "status": s}): no thread_id key
StatusEvent(s) ==
    [type |-> "status", status |-> s, chunk |-> <<>>, message |-> NoMessage,
     thread_id |-> Absent]

\* json.dumps({"type": "chunk", "chunk": c, "thread_id": tid})
ChunkEvent(c, tid) ==
    [type |-> "chunk", status |-> "", chunk |-> c, message |-> NoMessage,
     thread_id |-> tid]

\* json.dumps({"type": "result", "message": {...}, "thread_id": tid})
ResultEvent(content, tid) ==
    [type |-> "result", status |-> "", chunk |-> <<>>,
     message |-> AssistantMessage(content), thread_id |-> tid]

\* json.dumps({"type": "done", "thread_id": tid})
DoneEvent(tid) ==
    [type |-> "done", status |-> "", chunk |-> <<>>, message |-> NoMessage,
     thread_id |-> tid]

(***************************************************************************)
(* The fixed texts of the code.                                            *)
(***************************************************************************)
Hello == Lit("Hello")
AssistantDefault == Lit("I'm an AI assistant.")
NoKeysText == Lit("No API keys are configured. Please add API keys to your .env file.")
BusyText ==
    Lit("Sorry, the AI service is currently experiencing high load. Please try again in a few moments or switch to a different model.")
UnexpectedFormatText == Lit("I couldn't process your request properly.")
NoAgentMessagesText ==
    Lit("I couldn't process your request with the AI agent. Please try again.")
NoReactMessagesText ==
    Lit("I couldn't find any useful information. Please try a different query.")

\* str(e) of an exception
StrOf(e) == Lit(e.text)

\* f"I encountered an error with the AI agent: {str(invoke_error)}"
AgentErrorText(e) == Lit("I encountered an error with the AI agent: ") \o StrOf(e)

\* ModelErrorText without the name of the model
ModelErrorText_NoModel(m, e) == Lit("I encountered an error with the model: ") \o StrOf(e)

\* f"I encountered an error with the {backend_model} model: {str(model_error)}"
ModelErrorText(m, e) ==
    Lit("I encountered an error with the ") \o Lit(m) \o Lit(" model: ") \o StrOf(e)

\* f"I encountered an error: {str(e)}"
GenericErrorText(e) == Lit("I encountered an error: ") \o StrOf(e)

\* f"I encountered an error with the research agent: {str(agent_error)}"
ReactErrorText(e) == Lit("I encountered an error with the research agent: ") \o StrOf(e)

(***************************************************************************)
(* Model Registry (lines 98-158).                                          *)
(***************************************************************************)
ApiKeys == {"OPENAI_API_KEY", "GOOGLE_API_KEY", "ANTHROPIC_API_KEY", "GROQ_API_KEY"}

\* the keys of the dict get_model_clients() builds, in insertion order
get_model_clients(env) ==
    (IF "OPENAI_API_KEY" \in env THEN <<"gpt-4o-mini", "gpt-4o">> ELSE <<>>)
    \o (IF "GOOGLE_API_KEY" \in env THEN <<"gemini-1.5-flash", "gemini-1.5-pro">> ELSE <<>>)
    \o (IF "ANTHROPIC_API_KEY" \in env
        THEN <<"claude-3-haiku-20240307", "claude-3-opus-20240229">> ELSE <<>>)
    \o (IF "GROQ_API_KEY" \in env
        THEN <<"llama-3.3-70b-versatile", "mixtral-8x7b-32768">> ELSE <<>>)

\* name in MODEL_CLIENTS
Registered(clients, name) == \E i \in 1..Len(clients) : clients[i] = name

\* FirstRegistered with the last key taken instead of the first
FirstRegistered_Last(clients) == clients[Len(clients)]

\* next(iter(MODEL_CLIENTS.keys()))
FirstRegistered(clients) == clients[1]

\* lines 300-312 and 354-368: the model name used for a non-empty registry
ResolveModel(clients, name) ==
    IF Registered(clients, name) THEN name ELSE FirstRegistered(clients)

\* lines 300-302 and 354-356: no handle at all
NoBackend(clients, name) == ~Registered(clients, name) /\ clients = <<>>

(***************************************************************************)
(* Conversation Normalizer of chat (lines 212-225).                        *)
(***************************************************************************)
\* msg.content.strip() if msg.content else default
NormalizedContent(content, default) ==
    IF content # <<>> THEN Strip(content) ELSE default

RECURSIVE ConvertMessages(_)
\* the for loop of lines 213-221
ConvertMessages(messages) ==
    IF messages = <<>> THEN <<>>
    ELSE LET msg == Head(messages)
             rest == ConvertMessages(Tail(messages))
         IN  IF msg.role = "user"
             THEN <<[type |-> "HumanMessage",
                     content |-> NormalizedContent(msg.content, Hello)]>> \o rest
             ELSE IF msg.role = "assistant"
             THEN <<[type |-> "AIMessage",
                     content |-> NormalizedContent(msg.content, AssistantDefault)]>> \o rest
             ELSE rest

\* ChatNormalize that drops a message equal to the one before it
ChatNormalize_Dedup(messages) ==
    LET converted == ConvertMessages(messages)
    IN  IF converted = <<>>
        THEN <<[type |-> "HumanMessage", content |-> Hello]>>
        ELSE IF Len(converted) >= 2 /\ converted[1] = converted[2]
        THEN Tail(converted)
        ELSE converted

\* lines 212-225
ChatNormalize(messages) ==
    LET converted == ConvertMessages(messages)
    IN  IF converted = <<>>
        THEN <<[type |-> "HumanMessage", content |-> Hello]>>
        ELSE converted

RECURSIVE ReactConvert(_)
\* lines 529-534 and 660-665: no stripping, no default, no substitution
ReactConvert(messages) ==
    IF messages = <<>> THEN <<>>
    ELSE LET msg == Head(messages)
             rest == ReactConvert(Tail(messages))
         IN  IF msg.role = "user"
             THEN <<[type |-> "HumanMessage", content |-> msg.content]>> \o rest
             ELSE IF msg.role = "assistant"
             THEN <<[type |-> "AIMessage", content |-> msg.content]>> \o rest
             ELSE rest

\* ThreadIdOf that generates an id only when none is supplied, not for the empty one
ThreadIdOf_NoneOnly(tid) == IF tid # NoneValue THEN tid ELSE NewUuid

\* request.thread_id or str(uuid.uuid4())
ThreadIdOf(tid) == IF tid \notin {NoneValue, ""} THEN tid ELSE NewUuid

(***************************************************************************)
(* Extraction of the reply from an agent result.                           *)
(*                                                                         *)
(* A result is [has_messages, messages]; a message is [shape, content,     *)
(* tool_calls] with shape "attr" (an object with a content attribute),     *)
(* "dict" (a mapping with a "content" key) or "other"; a tool call is      *)
(* [name, output_kind, output] with output_kind "list", "str" or "none";   *)
(* an item of a list output is [url, title], <<>> for a missing or empty   *)
(* field.  An exception is [cls, text].                                    *)
(***************************************************************************)
\* "messages" in result and result["messages"] and len(result["messages"]) > 0
HasMessages(result) == result.has_messages /\ result.messages # <<>>

\* result["messages"][-1]
LastMessage(result) == result.messages[Len(result.messages)]

\* ExtractAgentReply that reads the content attribute only
ExtractAgentReply_AttrOnly(result) ==
    IF HasMessages(result)
    THEN LET ai_message == LastMessage(result)
         IN  IF ai_message.shape = "attr" THEN ai_message.content
             ELSE UnexpectedFormatText
    ELSE NoAgentMessagesText

\* lines 276-287 and 417-426
ExtractAgentReply(result) ==
    IF HasMessages(result)
    THEN LET ai_message == LastMessage(result)
         IN  IF ai_message.shape = "attr" THEN ai_message.content
             ELSE IF ai_message.shape = "dict" THEN ai_message.content
             ELSE UnexpectedFormatText
    ELSE NoAgentMessagesText

\* the longest title format_source_urls leaves whole (line 830)
TitleMax == 60
\* the characters kept of a longer title (line 831)
TitleKeep == 57

\* a truncation that keeps TitleMax characters before the ellipsis
CleanTitle_KeepMax(title) ==
    LET t == Strip(title)
    IN  IF Len(t) > TitleMax THEN Prefix(t, TitleMax) \o <<".", ".", ".">> ELSE t

\* lines 829-831: title.strip(), then truncation
CleanTitle(title) ==
    LET t == Strip(title)
    IN  IF Len(t) > TitleMax THEN Prefix(t, TitleKeep) \o <<".", ".", ".">> ELSE t

\* f"[{title}]({url})"
FormatLink(source) ==
    <<"[">> \o CleanTitle(source.title) \o <<"]", "(">> \o source.url \o <<")">>

RECURSIVE FormattedSources(_)
\* the loop of lines 824-832: sources with an empty url are skipped
FormattedSources(sources) ==
    IF sources = <<>> THEN <<>>
    ELSE IF Head(sources).url # <<>>
         THEN <<FormatLink(Head(sources))>> \o FormattedSources(Tail(sources))
         ELSE FormattedSources(Tail(sources))

\* "\n\n**Sources:**\n"
SourcesHeader ==
    <<"\n", "\n", "*", "*", "S", "o", "u", "r", "c", "e", "s", ":", "*", "*", "\n">>

\* lines 819-836
format_source_urls(sources) ==
    IF sources = <<>> THEN <<>>
    ELSE LET formatted_sources == FormattedSources(sources)
         IN  IF formatted_sources # <<>>
             THEN SourcesHeader \o JoinLines(formatted_sources)
             ELSE <<>>

\* item.get("url") and item.get("title")
ItemKept(item) == item.url # <<>> /\ item.title # <<>>

RECURSIVE ItemSources(_)
\* lines 607-612: the items of one list output, in order
ItemSources(items) ==
    IF items = <<>> THEN <<>>
    ELSE IF ItemKept(Head(items))
         THEN <<Head(items)>> \o ItemSources(Tail(items))
         ELSE ItemSources(Tail(items))

\* ToolCallCounts without the test of the tool name
ToolCallCounts_AnyName(tool_call) ==
    /\ tool_call.output_kind = "list"
    /\ tool_call.output # <<>>

\* lines 604-606: tool_call.get("name") == "search" and tool_call.get("output"),
\* and isinstance(tool_output, list)
ToolCallCounts(tool_call) ==
    /\ tool_call.name = "search"
    /\ tool_call.output_kind = "list"
    /\ tool_call.output # <<>>

RECURSIVE ToolCallSources(_)
\* lines 603-612: the tool calls of one message, in order
ToolCallSources(tool_calls) ==
    IF tool_calls = <<>> THEN <<>>
    ELSE (IF ToolCallCounts(Head(tool_calls))
          THEN ItemSources(Head(tool_calls).output) ELSE <<>>)
         \o ToolCallSources(Tail(tool_calls))

RECURSIVE CollectSources(_)
\* lines 598-612: the messages of the result, in order
CollectSources(messages) ==
    IF messages = <<>> THEN <<>>
    ELSE ToolCallSources(Head(messages).tool_calls) \o CollectSources(Tail(messages))

AttributeError == [cls |-> "AttributeError", text |-> "object has no attribute 'content'"]

\* "messages" in result and result["messages"]  (lines 593, 730)
ReactHasMessages(result) == result.has_messages /\ result.messages # <<>>

\* lines 593-618 and 730-755: the reply text, or the exception the code raises
ReactReply(result) ==
    IF ReactHasMessages(result)
    THEN LET ai_message == LastMessage(result)
         IN  IF ai_message.shape # "attr"
             THEN [raised |-> TRUE, error |-> AttributeError, content |-> <<>>]
             ELSE [raised |-> FALSE, error |-> AttributeError,
                   content |-> ai_message.content
                               \o format_source_urls(CollectSources(result.messages))]
    ELSE [raised |-> FALSE, error |-> AttributeError, content |-> NoReactMessagesText]

\* IsOverload of a handler without the except clause of line 620
IsOverload_Never(e) == FALSE

\* except anthropic.InternalServerError (line 620)
IsOverload(e) == e.cls = "anthropic.InternalServerError"

\* lines 620-632: the reply of react_agent_search for an exception of the agent
ReactSyncErrorText(e) == IF IsOverload(e) THEN BusyText ELSE ReactErrorText(e)

\* model_mapping.get(request.model), else f"default/{request.model}" (lines 546-560)
AgentModel(name) ==
    CASE name = "gemini-1.5-flash" -> "google/gemini-1.5-flash"
      [] name = "gpt-4o-mini" -> "openai/gpt-4o-mini"
      [] name = "gpt-4o" -> "openai/gpt-4o"
      [] name = "claude-3-haiku-20240307" -> "anthropic/claude-3-haiku-20240307"
      [] name = "llama-3.3-70b-versatile" -> "groq/llama-3.3-70b-versatile"
      [] name = "mixtral-8x7b-32768" -> "groq/mixtral-8x7b-32768"
      [] OTHER -> "default/" \o name

FallbackCandidates == <<"gpt-4o-mini", "gemini-1.5-flash", "llama-3.3-70b-versatile">>

RECURSIVE FallbackModels(_, _, _)
\* lines 569-575
FallbackModels(candidates, clients, agent_model) ==
    IF candidates = <<>> THEN <<>>
    ELSE (IF Registered(clients, Head(candidates))
             /\ AgentModel(Head(candidates)) # agent_model
          THEN <<AgentModel(Head(candidates))>> ELSE <<>>)
         \o FallbackModels(Tail(candidates), clients, agent_model)

\* the first registered candidate, whether or not it is the agent model
FallbackModel_FirstRegistered(clients, agent_model) ==
    LET registered == SelectSeq(FallbackCandidates, LAMBDA c : Registered(clients, c))
    IN  IF registered # <<>> THEN AgentModel(registered[1]) ELSE NoneValue

\* lines 577-578: config.fallback_model, NoneValue when it is not set
FallbackModel(clients, agent_model) ==
    LET fallback_models == FallbackModels(FallbackCandidates, clients, agent_model)
    IN  IF fallback_models # <<>> THEN fallback_models[1] ELSE NoneValue

(***************************************************************************)
(* The synthetic splitter (lines 429-446 and 758-775).                     *)
(***************************************************************************)
\* the words after which the buffer is flushed (lines 438, 767)
FlushWords == 3

\* FlushNow with the flush one word late
FlushNow_Late(count, word) == count > FlushWords \/ HasTerminal(word)

\* word_count >= 3 or any(char in word for char in ['.', '!', '?', '\n'])
FlushNow(count, word) == count >= FlushWords \/ HasTerminal(word)

\* progress_steps (line 402)
progress_steps == <<"Thinking", "Processing", "Analyzing", "Formulating response">>

(***************************************************************************)
(* Inputs: the requests of the clients and the behaviours of the           *)
(* collaborators (model providers, agent graphs).                          *)
(***************************************************************************)
Msg(role, content) == [role |-> role, content |-> content]

\* the message lists of the requests
MessageLists ==
    { <<>>,
      <<Msg("user", <<"H", "i">>)>>,
      <<Msg("user", <<" ">>)>>,
      <<Msg("system", <<"H", "i">>)>>,
      <<Msg("user", <<>>), Msg("system", <<"s">>), Msg("assistant", <<>>),
        Msg("assistant", <<"b", " ">>)>> }

\* the model names of the requests: registered first, registered later, unknown
ModelNames == {"gpt-4o-mini", "gemini-1.5-flash", "no-such-model"}

ThreadIds == {NoneValue, "", "t1"}

ChatRequests ==
    [endpoint : {"chat"}, messages : MessageLists, model : ModelNames,
     thread_id : ThreadIds, use_agent : BOOLEAN, stream : BOOLEAN]

ReactRequests ==
    [endpoint : {"react-search", "react-search-streaming"}, messages : MessageLists,
     model : ModelNames, thread_id : ThreadIds, use_agent : {FALSE}, stream : {FALSE}]

EmptyRequest ==
    [endpoint |-> "", messages |-> <<>>, model |-> "", thread_id |-> NoneValue,
     use_agent |-> FALSE, stream |-> FALSE]

\* the environments the process starts in
Environments ==
    { {}, {"OPENAI_API_KEY"}, {"GOOGLE_API_KEY", "GROQ_API_KEY"} }

\* the exceptions a collaborator raises
Exceptions ==
    { [cls |-> "anthropic.InternalServerError", text |-> "Overloaded"],
      [cls |-> "Exception", text |-> "boom"] }

\* reply texts of a model or an agent
ReplyTexts ==
    { <<>>,
      <<"H", "i">>,
      <<"a", " ", "b", " ", "c", " ", "d">>,
      <<"a", ".", " ", "b">>,
      <<"a", " ", " ", "b", "\n">> }

AgentMsg(shape, content, tool_calls) ==
    [shape |-> shape, content |-> content, tool_calls |-> tool_calls]

AgentResult(has_messages, messages) ==
    [has_messages |-> has_messages, messages |-> messages]

\* results of agt_graph.invoke
ChatAgentResults ==
    { AgentResult(FALSE, <<>>), AgentResult(TRUE, <<>>) }
    \cup { AgentResult(TRUE, <<AgentMsg("attr", <<"q">>, <<>>), AgentMsg(sh, t, <<>>)>>) :
             sh \in {"attr", "dict", "other"}, t \in ReplyTexts }

Item(url, title) == [url |-> url, title |-> title]
ToolCall(name, kind, output) == [name |-> name, output_kind |-> kind, output |-> output]

Url1 == <<"u", "1">>
Url2 == <<"u", ".", "2">>
Title1 == <<"T", "1">>
Title2 == <<" ", "T", " ", "2", " ">>
\* a title of TitleMax + 1 characters
LongTitle == [i \in 1..(TitleMax + 1) |-> "x"]

\* list outputs of a tool call: empty, and lists of items
ToolOutputs ==
    { <<>>,
      <<Item(Url1, Title1)>>,
      <<Item(Url1, Title1), Item(Url2, Title2)>>,
      <<Item(Url2, Title2), Item(Url1, Title1)>>,
      <<Item(Url1, Title1), Item(Url1, Title1)>>,
      <<Item(<<>>, Title1), Item(Url2, LongTitle)>>,
      <<Item(Url1, <<>>)>> }

ToolCalls ==
    { ToolCall("search", "list", out) : out \in ToolOutputs }
    \cup { ToolCall("search", "str", <<>>), ToolCall("search", "none", <<>>),
           ToolCall("calculator", "list", <<Item(Url2, Title2)>>) }

\* the tool_calls of a message
ToolCallLists ==
    { <<>> } \cup { <<tc>> : tc \in ToolCalls }
    \cup { <<ToolCall("search", "list", <<Item(Url2, Title2)>>), tc>> : tc \in ToolCalls }

\* results of react_graph.ainvoke
ReactAgentResults ==
    { AgentResult(FALSE, <<>>), AgentResult(TRUE, <<>>),
      AgentResult(TRUE, <<AgentMsg("dict", <<"H", "i">>, <<>>)>>) }
    \cup { AgentResult(TRUE, <<AgentMsg("attr", <<>>, tcs), AgentMsg("attr", <<"o", "k", ".">>, <<>>)>>) :
             tcs \in ToolCallLists }
    \cup { AgentResult(TRUE, <<AgentMsg("attr", <<>>, <<tc1>>), AgentMsg("attr", <<"a", " ", "b">>, <<tc2>>)>>) :
             tc1 \in ToolCalls, tc2 \in {ToolCall("search", "list", <<Item(Url1, Title1)>>)} }
    \cup { AgentResult(TRUE, <<AgentMsg("attr", t, <<>>)>>) : t \in ReplyTexts }
    \cup { AgentResult(TRUE,
              <<AgentMsg("attr", <<>>,
                         <<ToolCall("search", "list", <<Item(Url1, Title1), Item(Url2, Title2)>>),
                           ToolCall("calculator", "list", <<Item(Url2, Title2)>>)>>),
                AgentMsg("attr", <<"o", "k">>,
                         <<ToolCall("search", "list", <<Item(Url1, Title1)>>)>>)>>) }

NoException == [cls |-> "", text |-> ""]
NoResult == AgentResult(FALSE, <<>>)

\* the outcome of an invocation: a result, or an exception
Returned(result) == [raised |-> FALSE, result |-> result, error |-> NoException]
Raised(e) == [raised |-> TRUE, result |-> NoResult, error |-> e]

ChatAgentOutcomes ==
    { Returned(r) : r \in ChatAgentResults } \cup { Raised(e) : e \in Exceptions }

ReactAgentOutcomes ==
    { Returned(r) : r \in ReactAgentResults } \cup { Raised(e) : e \in Exceptions }

\* the outcome of model.invoke: an AIMessage with a content, or an exception
ModelOutcomes ==
    { Returned(AgentResult(TRUE, <<AgentMsg("attr", t, <<>>)>>)) : t \in ReplyTexts }
    \cup { Raised(e) : e \in Exceptions }

\* a fragment of a provider stream: [shape, content], shape "attr" (chunk.content),
\* "dict" (chunk["content"]), "delta" (chunk.delta.content) or "other"
Fragments ==
    { [shape |-> "attr", content |-> <<"H">>],
      [shape |-> "dict", content |-> <<"i", " ">>],
      [shape |-> "delta", content |-> <<"x">>],
      [shape |-> "attr", content |-> <<>>],
      [shape |-> "other", content |-> <<>>] }

\* ChunkContent without the chunk.delta.content branch
ChunkContent_NoDelta(chunk) ==
    IF chunk.shape = "attr" /\ chunk.content # <<>> THEN chunk.content
    ELSE IF chunk.shape = "dict" THEN chunk.content
    ELSE <<>>

\* lines 474-480: chunk_content of a fragment
ChunkContent(chunk) ==
    IF chunk.shape = "attr" /\ chunk.content # <<>> THEN chunk.content
    ELSE IF chunk.shape = "dict" THEN chunk.content
    ELSE IF chunk.shape = "delta" /\ chunk.content # <<>> THEN chunk.content
    ELSE <<>>

(***************************************************************************)
(* State.                                                                  *)
(***************************************************************************)
VARIABLES
    MODEL_CLIENTS,       \* the registry: the registered names, in order
    request,             \* the request being handled
    pc,                  \* the position of the handler
    thread_id,           \* the local thread_id of the handler
    langchain_messages,  \* the normalized conversation
    model,               \* backend_model of chat, model of stream_chat_response
    has_astream,         \* the instantiated handle has a callable astream
    response,            \* the ChatResponse returned
    events,              \* the events the stream has yielded
    agent_task,          \* "none", "running" or "done": the offloaded invocation
    agent_outcome,       \* the outcome of the finished invocation or provider stream
    invoked,             \* the invocations of the collaborators, in order
    response_content,    \* the reply text
    words,               \* the words the splitter has not read yet
    buffer,              \* the buffer of the splitter
    word_count,          \* the words in the buffer
    step_index,          \* the index into progress_steps (0-based)
    polls,               \* timeouts of the polling loop so far
    waiters,             \* the wait_for calls pending on the agent task
    delivered,           \* the fragments the provider stream has delivered
    parked,              \* the locals of the other handler, suspended meanwhile
    sources              \* the argument of a call of format_source_urls

vars ==
    <<MODEL_CLIENTS, request, pc, thread_id, langchain_messages, model, has_astream,
      response, events, agent_task, agent_outcome, invoked, response_content, words,
      buffer, word_count, step_index, polls, waiters, delivered, parked,
      sources>>

\* the variables of the splitter
splitter == <<response_content, words, buffer, word_count>>

\* an invocation of a collaborator
Invocation(backend, name, messages, fallback) ==
    [backend |-> backend, model |-> name, messages |-> messages, fallback |-> fallback]

\* the locals of a handler that has not received its request yet
IdleFrame ==
    [request |-> EmptyRequest, pc |-> "idle", thread_id |-> Absent,
     langchain_messages |-> <<>>, model |-> "", has_astream |-> TRUE,
     response |-> NoResponse, events |-> <<>>, agent_task |-> "none",
     agent_outcome |-> Returned(NoResult), invoked |-> <<>>, response_content |-> <<>>,
     words |-> <<>>, buffer |-> <<>>, word_count |-> 0, step_index |-> 0, polls |-> 0,
     waiters |-> 0, delivered |-> <<>>]

\* the state after import: the registry is built, no request has arrived
Init ==
    /\ MODEL_CLIENTS \in { get_model_clients(env) : env \in Environments }
    /\ request = EmptyRequest
    /\ pc = "idle"
    /\ thread_id = Absent
    /\ langchain_messages = <<>>
    /\ model = ""
    /\ has_astream = TRUE
    /\ response = NoResponse
    /\ events = <<>>
    /\ agent_task = "none"
    /\ agent_outcome = Returned(NoResult)
    /\ invoked = <<>>
    /\ response_content = <<>>
    /\ words = <<>>
    /\ buffer = <<>>
    /\ word_count = 0
    /\ step_index = 0
    /\ polls = 0
    /\ waiters = 0
    /\ delivered = <<>>
    /\ parked = IdleFrame
    /\ sources = <<>>

(***************************************************************************)
(* chat (lines 201-344), not streaming.                                    *)
(***************************************************************************)
\* lines 204-232: thread id, normalized conversation, backend_model
ChatPrologue(req) ==
    /\ pc = "idle"
    /\ req.endpoint = "chat"
    /\ request' = req
    /\ thread_id' = ThreadIdOf(req.thread_id)
    /\ langchain_messages' = ChatNormalize(req.messages)

\* lines 235-247: the generator of stream_chat_response is handed to the transport
ChatStreaming(req) ==
    /\ req.stream
    /\ ChatPrologue(req)
    /\ model' = req.model
    /\ pc' = "s_start"
    /\ UNCHANGED <<MODEL_CLIENTS, sources, parked, has_astream, response, events, agent_task,
                   agent_outcome, invoked, splitter, step_index, polls, waiters, delivered>>

\* ChatAgent that invokes the model as well as the agent graph
ChatAgent_AlsoModel(req) ==
    /\ ~req.stream
    /\ req.use_agent
    /\ ChatPrologue(req)
    /\ model' = req.model
    /\ agent_task' = "running"
    /\ invoked' = invoked
                   \o <<Invocation("model", req.model, ChatNormalize(req.messages), NoneValue),
                        Invocation("agt_graph", req.model, ChatNormalize(req.messages),
                                   NoneValue)>>
    /\ pc' = "c_agent"
    /\ UNCHANGED <<MODEL_CLIENTS, sources, parked, has_astream, response, events, agent_outcome,
                   splitter, step_index, polls, waiters, delivered>>

\* lines 250-273: the agent graph is invoked in a worker thread
ChatAgent(req) ==
    /\ ~req.stream
    /\ req.use_agent
    /\ ChatPrologue(req)
    /\ model' = req.model
    /\ agent_task' = "running"
    /\ invoked' = Append(invoked, Invocation("agt_graph", req.model,
                                             ChatNormalize(req.messages), NoneValue))
    /\ pc' = "c_agent"
    /\ UNCHANGED <<MODEL_CLIENTS, sources, parked, has_astream, response, events, agent_outcome,
                   splitter, step_index, polls, waiters, delivered>>

\* lines 295-323: the registry is consulted and the model invoked in a worker thread
ChatDirect(req) ==
    /\ ~req.stream
    /\ ~req.use_agent
    /\ ChatPrologue(req)
    /\ IF NoBackend(MODEL_CLIENTS, req.model)
       THEN /\ response' = ChatResponse(NoKeysText, ThreadIdOf(req.thread_id))
            /\ model' = req.model
            /\ pc' = "done"
            /\ UNCHANGED <<agent_task, invoked>>
       ELSE /\ model' = ResolveModel(MODEL_CLIENTS, req.model)
            /\ agent_task' = "running"
            /\ invoked' = Append(invoked, Invocation("model", model',
                                                     ChatNormalize(req.messages), NoneValue))
            /\ pc' = "c_model"
            /\ UNCHANGED response
    /\ UNCHANGED <<MODEL_CLIENTS, sources, parked, has_astream, events, agent_outcome, splitter,
                   step_index, polls, waiters, delivered>>

\* the outcomes the collaborator invoked last can have
OutcomesOf(backend) ==
    CASE backend = "agt_graph" -> ChatAgentOutcomes
      [] backend = "react_graph" -> ReactAgentOutcomes
      [] OTHER -> ModelOutcomes

\* the offloaded invocation (worker thread or task) finishes
InvocationCompletes(outcome) ==
    /\ agent_task = "running"
    /\ outcome \in OutcomesOf(invoked[Len(invoked)].backend)
    /\ agent_task' = "done"
    /\ agent_outcome' = outcome
    /\ UNCHANGED <<MODEL_CLIENTS, sources, parked, request, pc, thread_id, langchain_messages, model,
                   has_astream, response, events, invoked, splitter, step_index, polls, waiters,
                   delivered>>

\* ChatAgentReply with the text of the exception left out of the message
ChatAgentReply_NoErrorText(outcome, tid) ==
    IF outcome.raised
    THEN ChatResponse(Lit("I encountered an error with the AI agent: "), tid)
    ELSE ChatResponse(ExtractAgentReply(outcome.result), tid)

\* lines 271-294 and 332-337: the reply of the agent backend
ChatAgentReply(outcome, tid) ==
    IF outcome.raised
    THEN ChatResponse(AgentErrorText(outcome.error), tid)
    ELSE ChatResponse(ExtractAgentReply(outcome.result), tid)

\* lines 314-337: the reply of the direct backend
ChatModelReply(outcome, name, tid) ==
    IF outcome.raised
    THEN ChatResponse(ModelErrorText(name, outcome.error), tid)
    ELSE ChatResponse(LastMessage(outcome.result).content, tid)

\* chat resumes after await asyncio.to_thread(agt_graph.invoke, ...)
ChatAgentReturn ==
    /\ pc = "c_agent"
    /\ agent_task = "done"
    /\ response' = ChatAgentReply(agent_outcome, thread_id)
    /\ pc' = "done"
    /\ UNCHANGED <<MODEL_CLIENTS, sources, parked, request, thread_id, langchain_messages, model,
                   has_astream, events, agent_task, agent_outcome, invoked, splitter,
                   step_index, polls, waiters, delivered>>

\* chat resumes after await asyncio.to_thread(model.invoke, ...)
ChatModelReturn ==
    /\ pc = "c_model"
    /\ agent_task = "done"
    /\ response' = ChatModelReply(agent_outcome, model, thread_id)
    /\ pc' = "done"
    /\ UNCHANGED <<MODEL_CLIENTS, sources, parked, request, thread_id, langchain_messages, model,
                   has_astream, events, agent_task, agent_outcome, invoked, splitter,
                   step_index, polls, waiters, delivered>>

(***************************************************************************)
(* stream_chat_response (lines 347-513).                                   *)
(***************************************************************************)
\* the outcome of MODEL_CLIENTS[model](): a handle, with or without a callable
\* astream, or an exception of the constructor
HandleOutcomes ==
    { [raised |-> FALSE, astream |-> a, error |-> NoException] : a \in BOOLEAN }
    \cup { [raised |-> TRUE, astream |-> FALSE, error |-> e] : e \in Exceptions }

\* the exceptions the transport raises in a generator whose client is gone:
\* GeneratorExit at a yield, asyncio.CancelledError at an await
ClosureSignals == {"GeneratorExit", "CancelledError"}

\* an except clause that catches whatever is raised
CaughtByExceptException_Any(cls) == TRUE

\* except Exception (lines 455, 499, 507, 794): both signals derive from
\* BaseException only
CaughtByExceptException(cls) == cls \notin {"GeneratorExit", "CancelledError"}

\* the positions at which a generator is suspended, at a yield or at an await
SuspendedAt ==
    {"s_resolve", "s_agent", "s_poll", "s_split", "s_astream",
     "rs_setup", "rs_poll", "rs_split", "rs_result"}

\* f"{progress_steps[step_index]}..."
ProgressStatus(i) == progress_steps[i + 1] \o "..."

\* TimedOut with a wait that stays pending after its timeout
TimedOut_Leak(n) == n

\* lines 408-411 and 720-724: the wait_for call that timed out is over;
\* it has cancelled the shield wrapper it waited on, not the task
TimedOut(n) == n - 1

\* NextStep without the wrap-around: it stays at the last label
NextStep_NoWrap(i) == IF i + 1 < Len(progress_steps) THEN i + 1 ELSE i

\* (step_index + 1) % len(progress_steps)
NextStep(i) == (i + 1) % Len(progress_steps)

\* line 351: the first event
StreamStart ==
    /\ pc = "s_start"
    /\ events' = Append(events, StatusEvent("Processing..."))
    /\ pc' = "s_resolve"
    /\ UNCHANGED <<MODEL_CLIENTS, sources, parked, request, thread_id, langchain_messages, model,
                   has_astream, response, agent_task, agent_outcome, invoked, splitter,
                   step_index, polls, waiters, delivered>>

\* lines 354-376 and 465-469: the registry is consulted, the handle instantiated,
\* and the backend chosen
StreamResolve(handle) ==
    /\ pc = "s_resolve"
    /\ IF NoBackend(MODEL_CLIENTS, model)
       THEN /\ events' = Append(events, ResultEvent(NoKeysText, thread_id))
            /\ pc' = "done"
            /\ UNCHANGED <<model, has_astream, invoked>>
       ELSE /\ model' = ResolveModel(MODEL_CLIENTS, model)
            /\ IF handle.raised
               THEN \* line 371 raises: the handler of lines 507-513
                    /\ events' = Append(events,
                                        ResultEvent(GenericErrorText(handle.error), thread_id))
                    /\ pc' = "done"
                    /\ UNCHANGED <<has_astream, invoked>>
               ELSE /\ has_astream' = handle.astream
                    /\ IF request.use_agent
                       THEN /\ events' = Append(events, StatusEvent("Running agent..."))
                            /\ pc' = "s_agent"
                            /\ UNCHANGED invoked
                       ELSE IF handle.astream
                       THEN /\ invoked' = Append(invoked,
                                Invocation("astream", model', langchain_messages, NoneValue))
                            /\ pc' = "s_astream"
                            /\ UNCHANGED events
                       ELSE \* no branch of lines 467-497 is taken: the generator ends
                            /\ pc' = "done"
                            /\ UNCHANGED <<events, invoked>>
    /\ UNCHANGED <<MODEL_CLIENTS, sources, parked, request, thread_id, langchain_messages, response,
                   agent_task, agent_outcome, splitter, step_index, polls, waiters, delivered>>

\* lines 378-407: the agent task is created and the first progress status yielded
StreamAgentStart ==
    /\ pc = "s_agent"
    /\ agent_task' = "running"
    /\ invoked' = Append(invoked,
                         Invocation("agt_graph", model, langchain_messages, NoneValue))
    /\ events' = Append(events, StatusEvent(ProgressStatus(step_index)))
    /\ step_index' = NextStep(step_index)
    /\ pc' = "s_poll"
    /\ waiters' = waiters + 1
    /\ UNCHANGED <<MODEL_CLIENTS, sources, parked, request, thread_id, langchain_messages, model,
                   has_astream, response, agent_outcome, splitter, polls, delivered>>

\* lines 405-411: wait_for times out, the task is not done, the next status is yielded
StreamPollTimeout ==
    /\ pc = "s_poll"
    /\ agent_task = "running"
    /\ polls < MaxPolls
    /\ polls' = polls + 1
    /\ events' = Append(events, StatusEvent(ProgressStatus(step_index)))
    /\ step_index' = NextStep(step_index)
    /\ waiters' = TimedOut(waiters) + 1
    /\ UNCHANGED <<MODEL_CLIENTS, sources, parked, request, pc, thread_id, langchain_messages, model,
                   has_astream, response, agent_task, agent_outcome, invoked, splitter,
                   delivered>>

\* lines 409-429 and 455-461: the task is done; its exception, or the reply text
StreamAgentResult ==
    /\ pc = "s_poll"
    /\ agent_task = "done"
    /\ IF agent_outcome.raised
       THEN /\ events' = Append(events,
                                ResultEvent(AgentErrorText(agent_outcome.error), thread_id))
            /\ pc' = "done"
            /\ UNCHANGED splitter
       ELSE /\ response_content' = ExtractAgentReply(agent_outcome.result)
            /\ words' = Split(response_content')
            /\ buffer' = <<>>
            /\ word_count' = 0
            /\ pc' = "s_split"
            /\ UNCHANGED events
    /\ waiters' = waiters - 1
    /\ UNCHANGED <<MODEL_CLIENTS, sources, parked, request, thread_id, langchain_messages, model,
                   has_astream, response, agent_task, agent_outcome, invoked, step_index,
                   polls, delivered>>

\* lines 433-446 and 762-775: one iteration of the for loop over the words
SplitWord ==
    /\ pc \in {"s_split", "rs_split"}
    /\ words # <<>>
    /\ LET word == Head(words)
           filled == buffer \o word \o <<" ">>
       IN  IF FlushNow(word_count + 1, word)
           THEN /\ events' = Append(events, ChunkEvent(filled, thread_id))
                /\ buffer' = <<>>
                /\ word_count' = 0
           ELSE /\ buffer' = filled
                /\ word_count' = word_count + 1
                /\ UNCHANGED events
    /\ words' = Tail(words)
    /\ UNCHANGED <<MODEL_CLIENTS, sources, parked, request, pc, thread_id, langchain_messages, model,
                   has_astream, response, agent_task, agent_outcome, invoked,
                   response_content, step_index, polls, waiters, delivered>>

\* lines 448-453: after the loop the result is yielded; the buffer is not flushed
StreamEmitResult ==
    /\ pc = "s_split"
    /\ words = <<>>
    /\ events' = Append(events, ResultEvent(response_content, thread_id))
    /\ pc' = "done"
    /\ UNCHANGED <<MODEL_CLIENTS, sources, parked, request, thread_id, langchain_messages, model,
                   has_astream, response, agent_task, agent_outcome, invoked, splitter,
                   step_index, polls, waiters, delivered>>

\* lines 472-490: the provider stream delivers a fragment
AstreamNext(chunk) ==
    /\ pc = "s_astream"
    /\ Len(delivered) < MaxFrags
    /\ delivered' = Append(delivered, chunk)
    /\ events' = IF ChunkContent(chunk) # <<>>
                 THEN Append(events, ChunkEvent(ChunkContent(chunk), thread_id))
                 ELSE events
    /\ UNCHANGED <<MODEL_CLIENTS, sources, parked, request, pc, thread_id, langchain_messages, model,
                   has_astream, response, agent_task, agent_outcome, invoked, splitter,
                   step_index, polls, waiters>>

\* lines 492-497: the provider stream ends
AstreamEnd ==
    /\ pc = "s_astream"
    /\ events' = Append(events, DoneEvent(thread_id))
    /\ pc' = "done"
    /\ UNCHANGED <<MODEL_CLIENTS, sources, parked, request, thread_id, langchain_messages, model,
                   has_astream, response, agent_task, agent_outcome, invoked, splitter,
                   step_index, polls, waiters, delivered>>

\* lines 499-505: the provider stream raises
AstreamRaise(e) ==
    /\ pc = "s_astream"
    /\ agent_outcome' = Raised(e)
    /\ events' = Append(events, ResultEvent(ModelErrorText(model, e), thread_id))
    /\ pc' = "done"
    /\ UNCHANGED <<MODEL_CLIENTS, sources, parked, request, thread_id, langchain_messages, model,
                   has_astream, response, agent_task, invoked, splitter, step_index,
                   polls, waiters, delivered>>

(***************************************************************************)
(* react_agent_search (lines 521-647).                                     *)
(***************************************************************************)
\* lines 524-589: thread id, conversation, configuration; the agent is awaited
ReactSearch(req) ==
    /\ pc = "idle"
    /\ req.endpoint = "react-search"
    /\ request' = req
    /\ thread_id' = ThreadIdOf(req.thread_id)
    /\ langchain_messages' = ReactConvert(req.messages)
    /\ model' = AgentModel(req.model)
    /\ agent_task' = "running"
    /\ invoked' = Append(invoked,
            Invocation("react_graph", AgentModel(req.model), ReactConvert(req.messages),
                       FallbackModel(MODEL_CLIENTS, AgentModel(req.model))))
    /\ pc' = "r_agent"
    /\ UNCHANGED <<MODEL_CLIENTS, sources, parked, has_astream, response, events, agent_outcome, splitter,
                   step_index, polls, waiters, delivered>>

\* lines 582-640: the reply of react_agent_search
ReactSearchReply(outcome, tid) ==
    IF outcome.raised
    THEN ChatResponse(ReactSyncErrorText(outcome.error), tid)
    ELSE LET reply == ReactReply(outcome.result)
         IN  IF reply.raised
             THEN ChatResponse(ReactSyncErrorText(reply.error), tid)
             ELSE ChatResponse(reply.content, tid)

\* react_agent_search resumes after await react_graph.ainvoke(...)
ReactSearchReturn ==
    /\ pc = "r_agent"
    /\ agent_task = "done"
    /\ response' = ReactSearchReply(agent_outcome, thread_id)
    /\ pc' = "done"
    /\ UNCHANGED <<MODEL_CLIENTS, sources, parked, request, thread_id, langchain_messages, model,
                   has_astream, events, agent_task, agent_outcome, invoked, splitter,
                   step_index, polls, waiters, delivered>>

(***************************************************************************)
(* react_agent_search_streaming and its event_generator (lines 649-807).   *)
(***************************************************************************)
\* lines 803-807: the generator is handed to the transport
ReactStreaming(req) ==
    /\ pc = "idle"
    /\ req.endpoint = "react-search-streaming"
    /\ request' = req
    /\ pc' = "rs_start"
    /\ UNCHANGED <<MODEL_CLIENTS, sources, parked, thread_id, langchain_messages, model, has_astream,
                   response, events, agent_task, agent_outcome, invoked, splitter,
                   step_index, polls, waiters, delivered>>

\* line 657: the first event
ReactStreamStart ==
    /\ pc = "rs_start"
    /\ events' = Append(events, StatusEvent("Starting research..."))
    /\ pc' = "rs_setup"
    /\ UNCHANGED <<MODEL_CLIENTS, sources, parked, request, thread_id, langchain_messages, model,
                   has_astream, response, agent_task, agent_outcome, invoked, splitter,
                   step_index, polls, waiters, delivered>>

\* lines 660-715: conversation, thread id, configuration, the task, the second status
ReactStreamSetup ==
    /\ pc = "rs_setup"
    /\ langchain_messages' = ReactConvert(request.messages)
    /\ thread_id' = ThreadIdOf(request.thread_id)
    /\ model' = AgentModel(request.model)
    /\ agent_task' = "running"
    /\ invoked' = Append(invoked,
            Invocation("react_graph", AgentModel(request.model),
                       ReactConvert(request.messages), NoneValue))
    /\ events' = Append(events, StatusEvent("Researching..."))
    /\ pc' = "rs_poll"
    /\ waiters' = waiters + 1
    /\ UNCHANGED <<MODEL_CLIENTS, sources, parked, request, has_astream, response, agent_outcome, splitter,
                   step_index, polls, delivered>>

\* lines 718-724: wait_for times out and the task is not done
ReactPollTimeout ==
    /\ pc = "rs_poll"
    /\ agent_task = "running"
    /\ polls < MaxReactPolls
    /\ polls' = polls + 1
    /\ waiters' = TimedOut(waiters) + 1
    /\ UNCHANGED <<MODEL_CLIENTS, sources, parked, request, pc, thread_id, langchain_messages, model,
                   has_astream, response, events, agent_task, agent_outcome, invoked,
                   splitter, step_index, delivered>>

\* lines 721-758 and 794-801: the task is done; an exception, or the reply text
ReactStreamResult ==
    /\ pc = "rs_poll"
    /\ agent_task = "done"
    /\ LET reply == IF agent_outcome.raised
                    THEN [raised |-> TRUE, error |-> agent_outcome.error, content |-> <<>>]
                    ELSE ReactReply(agent_outcome.result)
       IN  IF reply.raised
           THEN /\ events' = Append(events,
                                    ResultEvent(GenericErrorText(reply.error), thread_id))
                /\ pc' = "done"
                /\ UNCHANGED splitter
           ELSE /\ response_content' = reply.content
                /\ words' = Split(response_content')
                /\ buffer' = <<>>
                /\ word_count' = 0
                /\ pc' = "rs_split"
                /\ UNCHANGED events
    /\ waiters' = waiters - 1
    /\ UNCHANGED <<MODEL_CLIENTS, sources, parked, request, thread_id, langchain_messages, model,
                   has_astream, response, agent_task, agent_outcome, invoked, step_index,
                   polls, delivered>>

\* lines 777-785: after the loop a non-empty buffer is yielded as a chunk
ReactFlushRemainder ==
    /\ pc = "rs_split"
    /\ words = <<>>
    /\ events' = IF buffer # <<>>
                 THEN Append(events, ChunkEvent(buffer, thread_id))
                 ELSE events
    /\ pc' = "rs_result"
    /\ UNCHANGED <<MODEL_CLIENTS, sources, parked, request, thread_id, langchain_messages, model,
                   has_astream, response, agent_task, agent_outcome, invoked, splitter,
                   step_index, polls, waiters, delivered>>

\* ReactEmitResult with the last buffer, not the reply text, as the content
ReactEmitResult_Remainder ==
    /\ pc = "rs_result"
    /\ events' = Append(events, ResultEvent(buffer, thread_id))
    /\ pc' = "done"
    /\ UNCHANGED <<MODEL_CLIENTS, sources, parked, request, thread_id, langchain_messages, model,
                   has_astream, response, agent_task, agent_outcome, invoked, splitter,
                   step_index, polls, waiters, delivered>>

\* lines 787-792: the result event
ReactEmitResult ==
    /\ pc = "rs_result"
    /\ events' = Append(events, ResultEvent(response_content, thread_id))
    /\ pc' = "done"
    /\ UNCHANGED <<MODEL_CLIENTS, sources, parked, request, thread_id, langchain_messages, model,
                   has_astream, response, agent_task, agent_outcome, invoked, splitter,
                   step_index, polls, waiters, delivered>>

(***************************************************************************)
(* Specification of the handlers.                                          *)
(***************************************************************************)
AllOutcomes == ChatAgentOutcomes \cup ReactAgentOutcomes \cup ModelOutcomes

Next ==
    \/ \E req \in ChatRequests : ChatStreaming(req)
    \/ \E req \in ChatRequests : ChatAgent(req)
    \/ \E req \in ChatRequests : ChatDirect(req)
    \/ \E outcome \in AllOutcomes : InvocationCompletes(outcome)
    \/ ChatAgentReturn
    \/ ChatModelReturn
    \/ StreamStart
    \/ \E handle \in HandleOutcomes : StreamResolve(handle)
    \/ StreamAgentStart
    \/ StreamPollTimeout
    \/ StreamAgentResult
    \/ SplitWord
    \/ StreamEmitResult
    \/ \E chunk \in Fragments : AstreamNext(chunk)
    \/ AstreamEnd
    \/ \E e \in Exceptions : AstreamRaise(e)
    \/ \E req \in ReactRequests : ReactSearch(req)
    \/ ReactSearchReturn
    \/ \E req \in ReactRequests : ReactStreaming(req)
    \/ ReactStreamStart
    \/ ReactStreamSetup
    \/ ReactPollTimeout
    \/ ReactStreamResult
    \/ ReactFlushRemainder
    \/ ReactEmitResult

Spec == Init /\ [][Next]_vars

(***************************************************************************)
(* The client of a stream disconnects.                                     *)
(***************************************************************************)
\* a closure that also cancels the offloaded agent invocation
Disconnect_CancelsTask(signal) ==
    /\ pc \in SuspendedAt
    /\ events' = IF CaughtByExceptException(signal)
                 THEN Append(events,
                             ResultEvent(GenericErrorText([cls |-> signal, text |-> ""]),
                                         ThreadIdOf(request.thread_id)))
                 ELSE events
    /\ pc' = "closed"
    /\ waiters' = 0
    /\ agent_task' = IF agent_task = "running" THEN "cancelled" ELSE agent_task
    /\ UNCHANGED <<MODEL_CLIENTS, sources, parked, request, thread_id, langchain_messages, model,
                   has_astream, response, agent_outcome, invoked, splitter,
                   step_index, polls, delivered>>

\* the transport cancels the generator: signal is raised at the point where the
\* generator is suspended; an except clause that catches it yields the error
\* result of lines 507-513 and 794-801, otherwise the generator ends.  The
\* agent task, a task of its own behind asyncio.shield, is not cancelled.
Disconnect(signal) ==
    /\ pc \in SuspendedAt
    /\ events' = IF CaughtByExceptException(signal)
                 THEN Append(events,
                             ResultEvent(GenericErrorText([cls |-> signal, text |-> ""]),
                                         ThreadIdOf(request.thread_id)))
                 ELSE events
    /\ pc' = "closed"
    /\ waiters' = 0
    /\ UNCHANGED <<MODEL_CLIENTS, sources, parked, request, thread_id, langchain_messages, model,
                   has_astream, response, agent_task, agent_outcome, invoked, splitter,
                   step_index, polls, delivered>>

NextDisconnect ==
    \/ Next
    \/ \E signal \in ClosureSignals : Disconnect(signal)

SpecDisconnect == Init /\ [][NextDisconnect]_vars

(***************************************************************************)
(* Specification of the synthetic splitters alone: the agent has returned  *)
(* a reply text, any text of at most MaxLen characters, to a streaming     *)
(* request.                                                                *)
(***************************************************************************)
Alphabet == {"a", " ", ".", "\n"}

\* the texts of at most n characters
TextsUpTo(n) == UNION { [1..k -> Alphabet] : k \in 0..n }

ChunkChatRequest ==
    [endpoint |-> "chat", messages |-> <<Msg("user", <<"H", "i">>)>>,
     model |-> "gpt-4o-mini", thread_id |-> "t1", use_agent |-> TRUE, stream |-> TRUE]

ChunkReactRequest ==
    [endpoint |-> "react-search-streaming", messages |-> <<Msg("user", <<"H", "i">>)>>,
     model |-> "gpt-4o-mini", thread_id |-> NoneValue, use_agent |-> FALSE,
     stream |-> FALSE]

\* the state of stream_chat_response when the agent task has finished
InitChunkChat ==
    /\ request = ChunkChatRequest
    /\ pc = "s_poll"
    /\ thread_id = "t1"
    /\ langchain_messages = ChatNormalize(ChunkChatRequest.messages)
    /\ model = "gpt-4o-mini"
    /\ events = <<StatusEvent("Processing..."), StatusEvent("Running agent..."),
                  StatusEvent("Thinking...")>>
    /\ invoked = <<Invocation("agt_graph", "gpt-4o-mini",
                              ChatNormalize(ChunkChatRequest.messages), NoneValue)>>
    /\ step_index = 1

\* the state of the event_generator when the agent task has finished
InitChunkReact ==
    /\ request = ChunkReactRequest
    /\ pc = "rs_poll"
    /\ thread_id = NewUuid
    /\ langchain_messages = ReactConvert(ChunkReactRequest.messages)
    /\ model = AgentModel("gpt-4o-mini")
    /\ events = <<StatusEvent("Starting research..."), StatusEvent("Researching...")>>
    /\ invoked = <<Invocation("react_graph", AgentModel("gpt-4o-mini"),
                              ReactConvert(ChunkReactRequest.messages), NoneValue)>>
    /\ step_index = 0

InitChunk ==
    /\ MODEL_CLIENTS = get_model_clients({"OPENAI_API_KEY"})
    /\ has_astream = TRUE
    /\ response = NoResponse
    /\ agent_task = "done"
    /\ agent_outcome \in
         { Returned(AgentResult(TRUE, <<AgentMsg("attr", t, <<>>)>>)) : t \in TextsUpTo(MaxLen) }
    /\ response_content = <<>>
    /\ words = <<>>
    /\ buffer = <<>>
    /\ word_count = 0
    /\ polls = 0
    /\ waiters = 1
    /\ delivered = <<>>
    /\ parked = IdleFrame
    /\ sources = <<>>
    /\ \/ InitChunkChat
       \/ InitChunkReact

NextChunk ==
    \/ StreamAgentResult
    \/ ReactStreamResult
    \/ SplitWord
    \/ StreamEmitResult
    \/ ReactFlushRemainder
    \/ ReactEmitResult

SpecChunk == InitChunk /\ [][NextChunk]_vars

(***************************************************************************)
(* Specification of agent-backed streaming alone, with fairness: a stream  *)
(* of chat with use_agent, or of react-search-streaming, has been handed   *)
(* to the transport.  The event loop resumes a generator whose awaited     *)
(* task or sleep has finished, and the client reads every event.           *)
(***************************************************************************)
\* the state after ChatStreaming(ChunkChatRequest)
InitLiveChat ==
    /\ request = ChunkChatRequest
    /\ pc = "s_start"
    /\ thread_id = ThreadIdOf(ChunkChatRequest.thread_id)
    /\ langchain_messages = ChatNormalize(ChunkChatRequest.messages)
    /\ model = ChunkChatRequest.model

\* the state after ReactStreaming(ChunkReactRequest)
InitLiveReact ==
    /\ request = ChunkReactRequest
    /\ pc = "rs_start"
    /\ thread_id = Absent
    /\ langchain_messages = <<>>
    /\ model = ""

InitLive ==
    /\ MODEL_CLIENTS \in { get_model_clients(env) : env \in Environments }
    /\ has_astream = TRUE
    /\ response = NoResponse
    /\ events = <<>>
    /\ agent_task = "none"
    /\ agent_outcome = Returned(NoResult)
    /\ invoked = <<>>
    /\ response_content = <<>>
    /\ words = <<>>
    /\ buffer = <<>>
    /\ word_count = 0
    /\ step_index = 0
    /\ polls = 0
    /\ waiters = 0
    /\ delivered = <<>>
    /\ parked = IdleFrame
    /\ sources = <<>>
    /\ \/ InitLiveChat
       \/ InitLiveReact

\* the steps of the generators once the agent task has finished
GeneratorStep ==
    \/ StreamAgentResult
    \/ ReactStreamResult
    \/ SplitWord
    \/ StreamEmitResult
    \/ ReactFlushRemainder
    \/ ReactEmitResult

NextLive ==
    \/ StreamStart
    \/ \E handle \in HandleOutcomes : StreamResolve(handle)
    \/ StreamAgentStart
    \/ StreamPollTimeout
    \/ ReactStreamStart
    \/ ReactStreamSetup
    \/ ReactPollTimeout
    \/ \E outcome \in AllOutcomes : InvocationCompletes(outcome)
    \/ GeneratorStep

SpecLive == InitLive /\ [][NextLive]_vars /\ WF_vars(GeneratorStep)

(***************************************************************************)
(* Specification of the normalizer of chat alone: a request with any list  *)
(* of at most MaxMsgs messages, of three roles and three contents, is      *)
(* normalized and handed to the agent.                                     *)
(***************************************************************************)
NormalizerMessages ==
    { Msg(role, content) : role \in {"user", "assistant", "system"},
                           content \in {<<>>, <<"a">>, <<"b">>} }

NormalizerRequests ==
    { [endpoint |-> "chat", messages |-> ms, model |-> "gpt-4o-mini",
       thread_id |-> NoneValue, use_agent |-> TRUE, stream |-> FALSE] :
      ms \in UNION { [1..n -> NormalizerMessages] : n \in 0..MaxMsgs } }

NextNormalize == \E req \in NormalizerRequests : ChatAgent(req)

SpecNormalize == Init /\ [][NextNormalize]_vars

(***************************************************************************)
(* Specification of two requests handled concurrently.  The handlers are   *)
(* coroutines of one event loop: one runs until it is suspended at an      *)
(* await or a yield, then the other may run.  The variables of the handler *)
(* are the locals of the running one; parked holds those of the other.     *)
(* MODEL_CLIENTS is the one object both read.                              *)
(***************************************************************************)
\* the locals of the running handler
Frame ==
    [request |-> request, pc |-> pc, thread_id |-> thread_id,
     langchain_messages |-> langchain_messages, model |-> model,
     has_astream |-> has_astream, response |-> response, events |-> events,
     agent_task |-> agent_task, agent_outcome |-> agent_outcome, invoked |-> invoked,
     response_content |-> response_content, words |-> words, buffer |-> buffer,
     word_count |-> word_count, step_index |-> step_index, polls |-> polls,
     waiters |-> waiters, delivered |-> delivered]

\* Switch with thread_id kept outside the frames, as a variable of the module
Switch_SharedThreadId ==
    /\ parked # Frame
    /\ parked' = Frame
    /\ request' = parked.request
    /\ pc' = parked.pc
    /\ langchain_messages' = parked.langchain_messages
    /\ model' = parked.model
    /\ has_astream' = parked.has_astream
    /\ response' = parked.response
    /\ events' = parked.events
    /\ agent_task' = parked.agent_task
    /\ agent_outcome' = parked.agent_outcome
    /\ invoked' = parked.invoked
    /\ response_content' = parked.response_content
    /\ words' = parked.words
    /\ buffer' = parked.buffer
    /\ word_count' = parked.word_count
    /\ step_index' = parked.step_index
    /\ polls' = parked.polls
    /\ waiters' = parked.waiters
    /\ delivered' = parked.delivered
    /\ UNCHANGED <<MODEL_CLIENTS, sources, thread_id>>

\* the event loop suspends the running handler and resumes the other one
Switch ==
    /\ parked # Frame
    /\ parked' = Frame
    /\ request' = parked.request
    /\ pc' = parked.pc
    /\ thread_id' = parked.thread_id
    /\ langchain_messages' = parked.langchain_messages
    /\ model' = parked.model
    /\ has_astream' = parked.has_astream
    /\ response' = parked.response
    /\ events' = parked.events
    /\ agent_task' = parked.agent_task
    /\ agent_outcome' = parked.agent_outcome
    /\ invoked' = parked.invoked
    /\ response_content' = parked.response_content
    /\ words' = parked.words
    /\ buffer' = parked.buffer
    /\ word_count' = parked.word_count
    /\ step_index' = parked.step_index
    /\ polls' = parked.polls
    /\ waiters' = parked.waiters
    /\ delivered' = parked.delivered
    /\ UNCHANGED <<MODEL_CLIENTS, sources>>

\* a direct stream that needs the fallback model, an agent stream, a direct reply
TwoRequests ==
    { [endpoint |-> "chat", messages |-> <<Msg("user", <<"H", "i">>)>>,
       model |-> "no-such-model", thread_id |-> "t1", use_agent |-> FALSE,
       stream |-> TRUE],
      [endpoint |-> "chat", messages |-> <<Msg("user", <<"H", "i">>)>>,
       model |-> "gpt-4o-mini", thread_id |-> "t2", use_agent |-> TRUE,
       stream |-> TRUE],
      [endpoint |-> "chat", messages |-> <<Msg("user", <<"H", "i">>)>>,
       model |-> "gemini-1.5-flash", thread_id |-> "t3", use_agent |-> FALSE,
       stream |-> FALSE] }

TwoOutcomes ==
    { Returned(AgentResult(TRUE, <<AgentMsg("attr", <<"q">>, <<>>),
                                   AgentMsg("attr", <<"a", " ", "b", " ", "c", " ", "d">>,
                                            <<>>)>>)),
      Returned(AgentResult(TRUE, <<AgentMsg("attr", <<"H", "i">>, <<>>)>>)),
      Raised([cls |-> "Exception", text |-> "boom"]) }

TwoFragments ==
    { [shape |-> "attr", content |-> <<"H">>], [shape |-> "attr", content |-> <<>>] }

NextTwo ==
    \/ \E req \in TwoRequests : ChatStreaming(req)
    \/ \E req \in TwoRequests : ChatDirect(req)
    \/ \E outcome \in TwoOutcomes : InvocationCompletes(outcome)
    \/ ChatModelReturn
    \/ StreamStart
    \/ \E handle \in HandleOutcomes : StreamResolve(handle)
    \/ StreamAgentStart
    \/ StreamPollTimeout
    \/ StreamAgentResult
    \/ SplitWord
    \/ StreamEmitResult
    \/ \E chunk \in TwoFragments : AstreamNext(chunk)
    \/ AstreamEnd
    \/ Switch

SpecTwo == Init /\ [][NextTwo]_vars


(***************************************************************************)
(* Specification of format_source_urls alone: a call with a list of        *)
(* sources whose titles lie on both sides of the truncation threshold.     *)
(***************************************************************************)

\* the longest list of sources handed to format_source_urls
MaxSources == 2

\* a title of n characters whose first and last characters can be told apart
TitleOf(n) == [i \in 1..n |-> IF i = 1 THEN "a" ELSE IF i = n THEN "z" ELSE "x"]

\* titles without surrounding whitespace, around TitleKeep and TitleMax
BareTitles ==
    { TitleOf(n) : n \in {0, 1, TitleKeep, TitleMax - 1, TitleMax, TitleMax + 1, TitleMax + 2} }

\* the same with whitespace around them, which strip() removes
SourceTitles ==
    BareTitles \cup { <<" ">> \o TitleOf(n) \o <<"\n">> : n \in {TitleMax, TitleMax + 1} }

\* source dicts with and without a url
SourceItems == { Item(url, title) : url \in {<<>>, Url1}, title \in SourceTitles }

SourceLists == UNION { [1..n -> SourceItems] : n \in 0..MaxSources }

InitSources ==
    /\ MODEL_CLIENTS = get_model_clients({})
    /\ request = EmptyRequest
    /\ pc = "format"
    /\ thread_id = Absent
    /\ langchain_messages = <<>>
    /\ model = ""
    /\ has_astream = TRUE
    /\ response = NoResponse
    /\ events = <<>>
    /\ agent_task = "none"
    /\ agent_outcome = Returned(NoResult)
    /\ invoked = <<>>
    /\ response_content = <<>>
    /\ words = <<>>
    /\ buffer = <<>>
    /\ word_count = 0
    /\ step_index = 0
    /\ polls = 0
    /\ waiters = 0
    /\ delivered = <<>>
    /\ parked = IdleFrame
    /\ sources \in SourceLists

\* the call format_source_urls(sources) and its return value
FormatSources ==
    /\ pc = "format"
    /\ response_content' = format_source_urls(sources)
    /\ pc' = "formatted"
    /\ UNCHANGED <<MODEL_CLIENTS, sources, parked, request, thread_id, langchain_messages,
                   model, has_astream, response, events, agent_task, agent_outcome,
                   invoked, words, buffer, word_count, step_index, polls, waiters,
                   delivered>>

NextSources == FormatSources

SpecSources == InitSources /\ [][NextSources]_vars

(***************************************************************************)
(* Vocabulary of the properties.                                           *)
(***************************************************************************)
\* the request is answered by a stream of events
Streaming ==
    \/ request.endpoint = "react-search-streaming"
    \/ request.endpoint = "chat" /\ request.stream

\* the request is answered by one ChatResponse
NonStreaming ==
    \/ request.endpoint = "react-search"
    \/ request.endpoint = "chat" /\ ~request.stream

IsTerminal(ev) == ev.type \in {"result", "done"}

\* the events of one type, in order
EventsOfType(type) == SelectSeq(events, LAMBDA ev : ev.type = type)

\* the payloads of the chunk events, in order
ChunkPayloads == [i \in 1..Len(EventsOfType("chunk")) |-> EventsOfType("chunk")[i].chunk]

LastEvent == events[Len(events)]

\* sub occurs in text
Embeds(sub, text) ==
    \E i \in 1..(Len(text) + 1) : \E j \in (i - 1)..Len(text) : SubSeq(text, i, j) = sub

\* the request runs a synthetic splitter: an agent behind a stream
SplitterPath ==
    \/ request.endpoint = "react-search-streaming"
    \/ request.endpoint = "chat" /\ request.stream /\ request.use_agent

\* the agent returned and the reply text was extracted without an exception
ReplyExtracted ==
    /\ agent_task = "done"
    /\ ~agent_outcome.raised
    /\ request.endpoint = "react-search-streaming" => ~ReactReply(agent_outcome.result).raised

\* a synthetic splitter has run to the end of its stream
SplitCompleted == SplitterPath /\ pc = "done" /\ ReplyExtracted

(***************************************************************************)
(* C1: every stream is zero or more status/chunk events followed by        *)
(* exactly one terminal event (result or done), which is the last event,   *)
(* whatever use_agent, the registry, the capability of the handle and the  *)
(* outcome of the backend are.                                             *)
(* Fails: a handle without a callable astream ends the direct stream of    *)
(* stream_chat_response after the first status event, with no terminal    *)
(* event.                                                                  *)
(***************************************************************************)
C1_OneTerminalEventLast ==
    /\ \A i \in 1..Len(events) : IsTerminal(events[i]) => i = Len(events)
    /\ (Streaming /\ pc = "done") => (events # <<>> /\ IsTerminal(LastEvent))

(***************************************************************************)
(* C2: the payloads of the chunk events of a synthetic splitter,           *)
(* concatenated in order, are the reply text exactly.                      *)
(* Fails: each word is emitted with a space appended, so react-search-     *)
(* streaming emits the text plus a trailing space, and stream_chat_response*)
(* drops the words left in the buffer after the loop.                      *)
(***************************************************************************)
C2_ChunksReproduceText ==
    SplitCompleted => Flatten(ChunkPayloads) = response_content

(***************************************************************************)
(* C3: every message the normalizer of chat produces has a content of      *)
(* length > 0.                                                             *)
(* Fails: a whitespace-only content is truthy, so it is stripped to the    *)
(* empty text instead of being replaced by the default.                    *)
(***************************************************************************)
C3_NoEmptyContent ==
    request.endpoint = "chat" =>
        \A i \in 1..Len(langchain_messages) : Len(langchain_messages[i].content) > 0

(***************************************************************************)
(* C4: a model name that is not registered, with a non-empty registry, is  *)
(* resolved to the first-registered name on the direct path of chat,       *)
(* streaming or not; that handle is the one invoked, and when the provider *)
(* does not fail the reply is the provider's reply (not streaming) or the  *)
(* stream of the handle's astream ends with a done event (streaming),      *)
(* never with the advisory or an error message.                            *)
(***************************************************************************)
\* the direct path of chat was asked for a name the non-empty registry lacks
DirectFallbackCase ==
    /\ request.endpoint = "chat"
    /\ ~request.use_agent
    /\ MODEL_CLIENTS # <<>>
    /\ \A i \in 1..Len(MODEL_CLIENTS) : MODEL_CLIENTS[i] # request.model

C5_EmptyRegistryAdvisory ==
    (request.endpoint = "chat" /\ MODEL_CLIENTS = <<>> /\ pc = "done") =>
        IF request.stream
        THEN /\ events # <<>>
             /\ LastEvent.type = "result"
             /\ LastEvent.message = [role |-> "assistant", content |-> NoKeysText]
        ELSE response.message = [role |-> "assistant", content |-> NoKeysText]

(***************************************************************************)
(* C6: when the agent of a chat request with use_agent raises the provider *)
(* overload error, the reply or the terminal result event carries the      *)
(* fixed busy advisory.                                                    *)
(* Fails: chat and stream_chat_response catch every exception of the agent *)
(* alike and embed its text in the generic agent error message.            *)
(***************************************************************************)
\* the agent of a chat request raised the overload error and chat has answered
ChatAgentOverloaded ==
    /\ request.endpoint = "chat"
    /\ request.use_agent
    /\ pc = "done"
    /\ agent_task = "done"
    /\ agent_outcome.raised
    /\ agent_outcome.error.cls = "anthropic.InternalServerError"

C6_OverloadBusyAdvisory ==
    ChatAgentOverloaded =>
        IF request.stream
        THEN LastEvent.type = "result" /\ LastEvent.message.content = BusyText
        ELSE response.message.content = BusyText

(***************************************************************************)
(* C7: a non-streaming request whose model or agent raises is answered by  *)
(* a ChatResponse with one assistant message that embeds the error text,   *)
(* and the thread id of the request.                                       *)
(* Fails as stated: react_agent_search answers the provider overload error *)
(* with the fixed busy message, which does not embed the error text.       *)
(* Amended: the message embeds the error text, except that react-search    *)
(* answers the overload error with the fixed busy message.                 *)
(***************************************************************************)
\* a non-streaming handler has answered a request whose backend raised
AnsweredBackendError == NonStreaming /\ pc = "done" /\ agent_task = "done" /\ agent_outcome.raised

\* the ChatResponse is well formed: an assistant message and the request's thread id
WellFormedResponse ==
    /\ response.message.role = "assistant"
    /\ response.thread_id \notin {Absent, NoneValue, ""}
    /\ response.thread_id =
          IF request.thread_id \in {NoneValue, ""} THEN NewUuid ELSE request.thread_id

C7_ErrorTextEmbedded ==
    AnsweredBackendError =>
        /\ WellFormedResponse
        /\ Embeds(<<agent_outcome.error.text>>, response.message.content)

C7_ErrorReplyWellFormed ==
    AnsweredBackendError =>
        /\ WellFormedResponse
        /\ IF request.endpoint = "react-search"
              /\ agent_outcome.error.cls = "anthropic.InternalServerError"
           THEN response.message.content = BusyText
           ELSE Embeds(<<agent_outcome.error.text>>, response.message.content)

\* the agent of chat raised and the reply embeds the text of the exception
C7_Witness ==
    /\ AnsweredBackendError
    /\ request.endpoint = "chat"
    /\ request.use_agent
    /\ request.thread_id = NoneValue
    /\ response.thread_id = NewUuid
    /\ Embeds(<<"boom">>, response.message.content)

(***************************************************************************)
(* C8: on the direct streaming path of chat, with a handle that has an     *)
(* astream and a provider stream that ends without an error, every         *)
(* non-empty fragment is forwarded as its own chunk event in arrival       *)
(* order, empty fragments are skipped, the chunk payloads concatenate to   *)
(* the provider's reply, and the stream is at least one chunk event        *)
(* followed by exactly one done event.                                     *)
(* Fails as stated: a provider stream with no non-empty fragment gives     *)
(* no chunk event at all before the done event.                            *)
(* Amended: the chunk events are as many as the non-empty fragments, at    *)
(* least one when the provider's reply is not empty.                       *)
(***************************************************************************)
\* the direct stream of chat has consumed a provider stream that ended normally
DirectStreamEnded ==
    /\ request.endpoint = "chat"
    /\ request.stream
    /\ ~request.use_agent
    /\ pc = "done"
    /\ invoked # <<>>
    /\ ~agent_outcome.raised

\* the non-empty fragments the provider delivered, in order
NonEmptyFragments == SelectSeq(delivered, LAMBDA chunk : chunk.content # <<>>)

\* the provider's full reply
ProviderReply == Flatten([i \in 1..Len(delivered) |-> delivered[i].content])

\* the events are the first status, one chunk per non-empty fragment, one done
ForwardedInOrder ==
    /\ Len(events) = Len(NonEmptyFragments) + 2
    /\ events[1].type = "status"
    /\ \A i \in 1..Len(NonEmptyFragments) :
          /\ events[i + 1].type = "chunk"
          /\ events[i + 1].chunk = NonEmptyFragments[i].content
    /\ LastEvent.type = "done"
    /\ Flatten(ChunkPayloads) = ProviderReply

C8_AtLeastOneChunk ==
    DirectStreamEnded =>
        /\ ForwardedInOrder
        /\ Len(EventsOfType("chunk")) >= 1

C8_FragmentsForwarded ==
    DirectStreamEnded =>
        /\ ForwardedInOrder
        /\ ProviderReply # <<>> => Len(EventsOfType("chunk")) >= 1

\* an empty fragment was skipped and fragments of two shapes were forwarded
C8_Witness ==
    /\ DirectStreamEnded
    /\ Len(delivered) = MaxFrags
    /\ \E i \in 1..Len(delivered) : delivered[i].shape # "attr" /\ delivered[i].content # <<>>
    /\ Len(EventsOfType("chunk")) >= 1
    /\ LastEvent.type = "done"

(***************************************************************************)
(* C9: in react-search, sync and streaming, the reply text is the content  *)
(* of the last message followed, when there is any qualifying entry, by a  *)
(* Sources section with one link per qualifying entry, in the order of the *)
(* entries across messages and tool calls, duplicates kept.  An entry      *)
(* qualifies when its tool call is named "search", the output is a list    *)
(* and the entry has a url and a title.                                    *)
(***************************************************************************)
\* the positions <<message, tool call, entry>> of the qualifying entries
QualifyingPositions(messages) ==
    { p \in UNION { UNION { { <<m, c, k>> : k \in 1..Len(messages[m].tool_calls[c].output) } :
                            c \in 1..Len(messages[m].tool_calls) } :
                    m \in 1..Len(messages) } :
        /\ messages[p[1]].tool_calls[p[2]].name = "search"
        /\ messages[p[1]].tool_calls[p[2]].output_kind = "list"
        /\ messages[p[1]].tool_calls[p[2]].output[p[3]].url # <<>>
        /\ messages[p[1]].tool_calls[p[2]].output[p[3]].title # <<>> }

\* p comes before q in the order of messages, tool calls and entries
Before(p, q) ==
    \/ p[1] < q[1]
    \/ p[1] = q[1] /\ p[2] < q[2]
    \/ p[1] = q[1] /\ p[2] = q[2] /\ p[3] < q[3]

\* the qualifying entries in that order
QualifyingEntries(messages) ==
    LET Q == QualifyingPositions(messages)
        At(i) == CHOOSE p \in Q : Cardinality({q \in Q : Before(q, p)}) = i - 1
    IN  [i \in 1..Cardinality(Q) |->
            messages[At(i)[1]].tool_calls[At(i)[2]].output[At(i)[3]]]

\* the reply text the claim describes for an agent result
ExpectedReactReply(result) ==
    LET entries == QualifyingEntries(result.messages)
        links == [i \in 1..Len(entries) |-> FormatLink(entries[i])]
    IN  LastMessage(result).content
        \o (IF entries = <<>> THEN <<>> ELSE SourcesHeader \o JoinLines(links))

\* react-search, sync or streaming, has answered from the messages of the agent
ReactAnswered ==
    /\ request.endpoint \in {"react-search", "react-search-streaming"}
    /\ pc = "done"
    /\ agent_task = "done"
    /\ ~agent_outcome.raised
    /\ agent_outcome.result.has_messages
    /\ agent_outcome.result.messages # <<>>
    /\ LastMessage(agent_outcome.result).shape = "attr"

\* the final reply text of the request
FinalReplyText ==
    IF request.endpoint = "react-search" THEN response.message.content
    ELSE LastEvent.message.content

C9_SourcesSection ==
    ReactAnswered => FinalReplyText = ExpectedReactReply(agent_outcome.result)

\* three qualifying entries of two messages, one of them twice, next to a
\* tool call that contributes nothing
C9_Witness ==
    /\ ReactAnswered
    /\ Len(QualifyingEntries(agent_outcome.result.messages)) >= 2
    /\ \E i, j \in 1..Len(QualifyingEntries(agent_outcome.result.messages)) :
          /\ i < j
          /\ QualifyingEntries(agent_outcome.result.messages)[i]
               = QualifyingEntries(agent_outcome.result.messages)[j]
    /\ \E m \in 1..Len(agent_outcome.result.messages) :
          \E c \in 1..Len(agent_outcome.result.messages[m].tool_calls) :
              agent_outcome.result.messages[m].tool_calls[c].name # "search"
    /\ Embeds(SourcesHeader, FinalReplyText)

(***************************************************************************)
(* C10: in synthetic splitting no chunk holds more than 3 words, a word    *)
(* with '.', '!', '?' or a newline is the last word of its chunk, and      *)
(* between two steps the buffer holds fewer than 3 words, none of them     *)
(* with such a character.                                                  *)
(***************************************************************************)
\* the words of a chunk or buffer: each word is followed by one space
WordsOf(text) == Split(SubSeq(text, 1, Len(text) - 1))

\* the flush was at or before the 3rd word and right after a terminal word
FlushedInTime(chunk) ==
    /\ chunk # <<>>
    /\ chunk[Len(chunk)] = " "
    /\ Len(WordsOf(chunk)) <= 3
    /\ \A j \in 1..(Len(WordsOf(chunk)) - 1) :
          \A k \in 1..Len(WordsOf(chunk)[j]) :
              WordsOf(chunk)[j][k] \notin {".", "!", "?", "\n"}

C10_FlushBounds ==
    SplitterPath =>
        /\ \A i \in 1..Len(ChunkPayloads) : FlushedInTime(ChunkPayloads[i])
        /\ pc \in {"s_split", "rs_split"} =>
              /\ word_count < 3
              /\ buffer # <<>> => Len(WordsOf(buffer)) = word_count
              /\ buffer = <<>> => word_count = 0
              /\ \A k \in 1..Len(buffer) : buffer[k] \notin {".", "!", "?", "\n"}

\* a chunk of 3 words and a shorter chunk that ends with a terminal word
C10_Witness ==
    /\ SplitCompleted
    /\ \E i \in 1..Len(ChunkPayloads) : Len(WordsOf(ChunkPayloads[i])) = 3
    /\ \E i \in 1..Len(ChunkPayloads) :
          /\ Len(WordsOf(ChunkPayloads[i])) < 3
          /\ \E k \in 1..Len(ChunkPayloads[i]) : ChunkPayloads[i][k] \in {".", "!", "?", "\n"}

(***************************************************************************)
(* C11: a direct stream of chat (stream, no use_agent) whose handle has no *)
(* callable astream is still a stream that ends with exactly one terminal  *)
(* event, result or done.                                                  *)
(* Fails: stream_chat_response has no branch for such a handle; the        *)
(* generator ends after the status event "Processing...".                  *)
(***************************************************************************)
\* the direct stream of chat got a handle without astream and has ended
NoAstreamStreamEnded ==
    /\ request.endpoint = "chat"
    /\ request.stream
    /\ ~request.use_agent
    /\ ~has_astream
    /\ pc = "done"

C11_NoAstreamStillTerminated ==
    NoAstreamStreamEnded =>
        /\ Len(EventsOfType("result")) + Len(EventsOfType("done")) = 1
        /\ LastEvent.type \in {"result", "done"}

(***************************************************************************)
(* C12: every event of every stream, whatever its variant (status, chunk,  *)
(* result, done), carries a thread_id field, equal to the thread id of the *)
(* request.                                                                *)
(* Fails: the status events are built without a thread_id field; the first *)
(* status of the event_generator is yielded before the thread id is even   *)
(* computed.                                                               *)
(***************************************************************************)
\* the thread id of the request: the supplied one, or the generated one
RequestThreadId ==
    IF request.thread_id \in {NoneValue, ""} THEN NewUuid ELSE request.thread_id

C12_EveryEventCarriesThreadId ==
    \A i \in 1..Len(events) :
        /\ events[i].thread_id # Absent
        /\ events[i].thread_id = RequestThreadId

(***************************************************************************)
(* C13: the thread id of the reply, and of every stream event that carries *)
(* one, is the thread id the client supplied, or else one generated id,    *)
(* the same for all outputs of the request; it is never absent or empty,   *)
(* also on error replies.  Chunk, result and done events carry one.        *)
(***************************************************************************)
C13_ThreadIdOfOutputs ==
    /\ \A i \in 1..Len(events) :
          /\ events[i].type \in {"chunk", "result", "done"} => events[i].thread_id # Absent
          /\ events[i].thread_id # Absent =>
                /\ events[i].thread_id = RequestThreadId
                /\ events[i].thread_id \notin {NoneValue, ""}
    /\ (NonStreaming /\ pc = "done") =>
          /\ response.thread_id = RequestThreadId
          /\ response.thread_id \notin {Absent, NoneValue, ""}

\* a stream of a request that supplied the empty thread id ends with an error
\* result event that carries the generated id
C13_Witness ==
    /\ pc = "done"
    /\ Streaming
    /\ request.thread_id = ""
    /\ agent_task = "done"
    /\ agent_outcome.raised
    /\ LastEvent.type = "result"
    /\ LastEvent.thread_id = NewUuid

(***************************************************************************)
(* C14: the conversation handed to a backend (model, agent graph, react    *)
(* agent; streaming or not) holds at least one message; when the request   *)
(* has no message, or only messages of dropped roles, it is the single     *)
(* default user message.                                                   *)
(* Fails: the conversions of react_agent_search and of the event_generator *)
(* substitute nothing, so the react agent is invoked with an empty         *)
(* conversation.                                                           *)
(***************************************************************************)
\* the messages of the request whose role the conversions keep
KeptMessages == SelectSeq(request.messages, LAMBDA msg : msg.role \in {"user", "assistant"})

C14_ConversationNotEmpty ==
    \A i \in 1..Len(invoked) :
        /\ Len(invoked[i].messages) >= 1
        /\ KeptMessages = <<>> =>
              invoked[i].messages = <<[type |-> "HumanMessage", content |-> <<"Hello">>]>>

(***************************************************************************)
(* C15: for a chat request and a non-empty registry, the model name handed *)
(* to the backend, the direct model or the agent (VaaniState.model_name),  *)
(* is a registered name: the requested name when it is registered, the     *)
(* first-registered name otherwise; with stream or without.                *)
(* Fails: chat with use_agent and without stream hands request.model to    *)
(* the agent graph without consulting the registry.                        *)
(***************************************************************************)
\* name is one of the registered names
IsRegisteredName(name) == \E k \in 1..Len(MODEL_CLIENTS) : MODEL_CLIENTS[k] = name

C15_RegisteredNameHandedOver ==
    (request.endpoint = "chat" /\ MODEL_CLIENTS # <<>>) =>
        \A i \in 1..Len(invoked) :
            /\ IsRegisteredName(invoked[i].model)
            /\ invoked[i].model =
                  IF IsRegisteredName(request.model) THEN request.model ELSE MODEL_CLIENTS[1]

(***************************************************************************)
(* C16: when the client of a stream disconnects, production stops at once: *)
(* the closure itself and every later step leave the events of the stream  *)
(* as they are; in particular no error result event is added.              *)
(***************************************************************************)
C16_NoEventAfterClosure ==
    [][pc' = "closed" => events' = events]_vars

\* the client left during the polling loop and the agent failed afterwards:
\* the stream holds no result event
C16_Witness ==
    /\ pc = "closed"
    /\ agent_task = "done"
    /\ agent_outcome.raised
    /\ events # <<>>
    /\ EventsOfType("result") = <<>>

(***************************************************************************)
(* C17: in both synthetic splitters a non-empty buffer left after the last *)
(* word is flushed as a chunk before the result event, so every word of    *)
(* the reply text is in some chunk event.                                  *)
(* Fails: stream_chat_response yields the result right after the loop; the *)
(* words left in the buffer are in no chunk.                               *)
(***************************************************************************)
\* the words of all chunk events, in order
ChunkWords == Flatten([i \in 1..Len(ChunkPayloads) |-> WordsOf(ChunkPayloads[i])])

C17_RemainderFlushed ==
    SplitCompleted =>
        /\ buffer # <<>> =>
              \E i \in 1..(Len(events) - 1) :
                  events[i].type = "chunk" /\ events[i].chunk = buffer
        /\ ChunkWords = Split(response_content)

(***************************************************************************)
(* C18: while the agent invocation of a chat stream with use_agent is      *)
(* outstanding, each iteration of the polling loop yields exactly one      *)
(* status event; the labels follow the cycle Thinking, Processing,         *)
(* Analyzing, Formulating response and wrap around to Thinking; a timeout  *)
(* of the poll leaves the invocation as it is: it neither cancels it nor   *)
(* fails it, and the invocation can complete right after it.               *)
(***************************************************************************)
\* the agent task of a chat stream has been created
ChatAgentPolling ==
    request.endpoint = "chat" /\ request.stream /\ request.use_agent /\ agent_task # "none"

\* the status events of the polling loop: those after "Processing..." and
\* "Running agent..."
ProgressEvents ==
    SelectSeq(SubSeq(events, 3, Len(events)), LAMBDA ev : ev.type = "status")

\* the label of the i-th iteration of the loop
CycleLabel(i) ==
    <<"Thinking...", "Processing...", "Analyzing...", "Formulating response...">>[((i - 1) % 4) + 1]

\* one status per iteration, on the cycle
OneStatusPerIteration ==
    ChatAgentPolling =>
        /\ Len(ProgressEvents) = polls + 1
        /\ \A i \in 1..Len(ProgressEvents) : ProgressEvents[i].status = CycleLabel(i)

\* a timeout of the poll yields one status and leaves the invocation running
TimeoutLeavesInvocation ==
    (ChatAgentPolling /\ polls' = polls + 1) =>
        /\ agent_task = "running"
        /\ agent_task' = "running"
        /\ agent_outcome' = agent_outcome
        /\ invoked' = invoked
        /\ Len(events') = Len(events) + 1
        /\ events'[Len(events')].type = "status"

C18_ProgressCycle ==
    []OneStatusPerIteration /\ [][TimeoutLeavesInvocation]_vars

\* five iterations: the fifth status is "Thinking..." again, and the agent
\* returned after the last timeout
C18_Witness ==
    /\ ChatAgentPolling
    /\ polls = 4
    /\ Len(ProgressEvents) = 5
    /\ ProgressEvents[1].status = "Thinking..."
    /\ ProgressEvents[4].status = "Formulating response..."
    /\ ProgressEvents[5].status = "Thinking..."
    /\ agent_task = "done"
    /\ ~agent_outcome.raised
    /\ pc = "done"

(***************************************************************************)
(* C19: in agent-backed streaming (chat with stream and use_agent, and     *)
(* react-search-streaming), once the agent invocation has completed, with  *)
(* a result or with an exception, the polling loop ends and the stream     *)
(* eventually yields its terminal result event; at every moment at most    *)
(* one wait with timeout is pending on the agent task.                     *)
(***************************************************************************)
\* the agent invocation of a streaming request has completed
AgentCompleted == SplitterPath /\ agent_task = "done"

\* the polling loop is over and the result event is the last event
StreamTerminated ==
    /\ pc = "done"
    /\ waiters = 0
    /\ events # <<>>
    /\ LastEvent.type = "result"

C19_PollingTerminates ==
    (AgentCompleted ~> StreamTerminated) /\ [](waiters \in {0, 1})

\* the agent of react-search-streaming raised after two timeouts or more, and
\* the stream ended with a result event
C19_Witness ==
    /\ request.endpoint = "react-search-streaming"
    /\ polls >= 2
    /\ agent_task = "done"
    /\ agent_outcome.raised
    /\ StreamTerminated

(***************************************************************************)
(* C20: in agent-backed streaming, after the agent returned and the reply  *)
(* text was extracted, no status event follows a chunk event, every chunk  *)
(* event precedes the one result event, which is the last event, and the   *)
(* content of the result event is the complete reply text the chunks were  *)
(* split from; in react-search-streaming that text includes the Sources    *)
(* section.                                                                *)
(***************************************************************************)
\* the words of the chunks are the first words of text, in order
ChunksSplitFrom(text) ==
    /\ Len(ChunkWords) <= Len(Split(text))
    /\ \A i \in 1..Len(ChunkWords) : ChunkWords[i] = Split(text)[i]

\* the reply text of the agent result, as the claim describes it
CompleteReplyText ==
    IF request.endpoint = "react-search-streaming"
    THEN IF agent_outcome.result.has_messages /\ agent_outcome.result.messages # <<>>
         THEN ExpectedReactReply(agent_outcome.result)
         ELSE response_content
    ELSE response_content

C20_ChunksThenOneResult ==
    (SplitterPath /\ ReplyExtracted) =>
        /\ \A i \in 1..Len(events) : \A j \in (i + 1)..Len(events) :
              events[i].type = "chunk" => events[j].type \in {"chunk", "result"}
        /\ \A i \in 1..Len(events) : events[i].type = "result" => i = Len(events)
        /\ pc = "done" =>
              /\ Len(EventsOfType("result")) = 1
              /\ LastEvent.type = "result"
              /\ LastEvent.message.content = response_content
              /\ LastEvent.message.content = CompleteReplyText
              /\ ChunksSplitFrom(LastEvent.message.content)

\* a stream of react-search-streaming with several chunks, ended by a result
\* event whose content holds the Sources section
C20_Witness ==
    /\ request.endpoint = "react-search-streaming"
    /\ ReplyExtracted
    /\ pc = "done"
    /\ Len(EventsOfType("chunk")) >= 2
    /\ LastEvent.type = "result"
    /\ Embeds(SourcesHeader, LastEvent.message.content)

(***************************************************************************)
(* C21: the normalizer of chat gives one message for each message of the   *)
(* request whose role is user or assistant, of the same role and in the    *)
(* same order; messages of other roles are dropped; nothing is reordered   *)
(* or deduplicated.  (A request without any user or assistant message      *)
(* gets the default user message: C14.)                                    *)
(***************************************************************************)
\* the message the normalizer makes of a user or assistant message
NormalizedFrom(msg) ==
    [type |-> IF msg.role = "user" THEN "HumanMessage" ELSE "AIMessage",
     content |-> IF msg.content # <<>> THEN Strip(msg.content)
                 ELSE IF msg.role = "user" THEN <<"Hello">>
                 ELSE <<"I'm an AI assistant.">>]

C21_OneMessagePerKeptMessage ==
    (request.endpoint = "chat" /\ pc # "idle") =>
        IF KeptMessages = <<>>
        THEN langchain_messages = <<[type |-> "HumanMessage", content |-> <<"Hello">>]>>
        ELSE /\ Len(langchain_messages) = Len(KeptMessages)
             /\ \A i \in 1..Len(KeptMessages) :
                   langchain_messages[i] = NormalizedFrom(KeptMessages[i])

\* a request with a message of a dropped role and two equal kept messages in
\* front: both are kept
C21_Witness ==
    /\ request.endpoint = "chat"
    /\ pc # "idle"
    /\ Len(request.messages) > Len(KeptMessages)
    /\ Len(KeptMessages) >= 2
    /\ KeptMessages[1] = KeptMessages[2]
    /\ Len(langchain_messages) = Len(KeptMessages)
    /\ langchain_messages[1] = langchain_messages[2]

(***************************************************************************)
(* C22: the agent backend of chat, streaming or not, takes the reply text  *)
(* from the last message of the agent result: its content attribute, or    *)
(* else its "content" key when it is a mapping; a last message of another  *)
(* shape, or a result without messages, gives a fixed "couldn't process"   *)
(* placeholder as the reply, and no error reply.                           *)
(***************************************************************************)
\* the agent of a chat request returned and chat has answered
ChatAgentAnswered ==
    /\ request.endpoint = "chat"
    /\ request.use_agent
    /\ pc = "done"
    /\ agent_task = "done"
    /\ ~agent_outcome.raised

\* the reply text of a chat request
ChatReplyText ==
    IF request.stream THEN LastEvent.message.content ELSE response.message.content

\* the two placeholders of the extraction
CouldNotProcess ==
    { <<"I couldn't process your request properly.">>,
      <<"I couldn't process your request with the AI agent. Please try again.">> }

C22_ReplyFromLastMessage ==
    ChatAgentAnswered =>
        /\ request.stream => (events # <<>> /\ LastEvent.type = "result")
        /\ LET result == agent_outcome.result
               last == result.messages[Len(result.messages)]
           IN  IF result.has_messages /\ Len(result.messages) > 0
                  /\ last.shape \in {"attr", "dict"}
               THEN ChatReplyText = last.content
               ELSE ChatReplyText \in CouldNotProcess

\* a stream whose agent result ends with a mapping: the result event carries
\* the value of its "content" key
C22_Witness ==
    /\ ChatAgentAnswered
    /\ request.stream
    /\ agent_outcome.result.has_messages
    /\ Len(agent_outcome.result.messages) > 0
    /\ LastMessage(agent_outcome.result).shape = "dict"
    /\ LastMessage(agent_outcome.result).content # <<>>
    /\ LastEvent.message.content = LastMessage(agent_outcome.result).content

(***************************************************************************)
(* C23: in react-search (sync) the overload error of the provider is       *)
(* answered by the fixed busy message exactly, every other exception of    *)
(* the agent by the generic message of the research agent with the text of *)
(* the exception in it; both as a ChatResponse with one assistant message  *)
(* and the thread id of the request.                                       *)
(***************************************************************************)
\* the exception react_agent_search caught: the agent's, or the one of the
\* extraction
ReactSyncError ==
    IF agent_outcome.raised THEN agent_outcome.error
    ELSE [cls |-> "AttributeError", text |-> "object has no attribute 'content'"]

\* react_agent_search has answered an exception
ReactSyncFailed ==
    /\ request.endpoint = "react-search"
    /\ pc = "done"
    /\ agent_task = "done"
    /\ \/ agent_outcome.raised
       \/ /\ agent_outcome.result.has_messages
          /\ agent_outcome.result.messages # <<>>
          /\ LastMessage(agent_outcome.result).shape # "attr"

C23_BusyOrGenericMessage ==
    ReactSyncFailed =>
        /\ response.message.role = "assistant"
        /\ response.thread_id = RequestThreadId
        /\ IF ReactSyncError.cls = "anthropic.InternalServerError"
           THEN response.message.content =
                  <<"Sorry, the AI service is currently experiencing high load. Please try again in a few moments or switch to a different model.">>
           ELSE /\ response.message.content =
                     <<"I encountered an error with the research agent: ", ReactSyncError.text>>
                /\ Embeds(<<ReactSyncError.text>>, response.message.content)

\* the overload error was answered with the busy message under the thread id
\* the client supplied
C23_Witness ==
    /\ ReactSyncFailed
    /\ agent_outcome.raised
    /\ agent_outcome.error.cls = "anthropic.InternalServerError"
    /\ request.thread_id = "t1"
    /\ response.thread_id = "t1"
    /\ response.message.content = BusyText

(***************************************************************************)
(* C24: on the direct streaming path of chat, a provider stream that       *)
(* raises after k >= 0 chunk events is completed by exactly one result     *)
(* event, whose message embeds the text of the error and the name of the   *)
(* model; no done event is emitted.                                        *)
(***************************************************************************)
\* the provider stream of a direct stream of chat raised and the stream has ended
DirectStreamFailed ==
    /\ request.endpoint = "chat"
    /\ request.stream
    /\ ~request.use_agent
    /\ pc = "done"
    /\ invoked # <<>>
    /\ agent_outcome.raised

C24_ErrorResultNoDone ==
    DirectStreamFailed =>
        /\ Len(EventsOfType("result")) = 1
        /\ EventsOfType("done") = <<>>
        /\ LastEvent.type = "result"
        /\ LastEvent.message.role = "assistant"
        /\ Embeds(<<agent_outcome.error.text>>, LastEvent.message.content)
        /\ Embeds(<<invoked[1].model>>, LastEvent.message.content)
        /\ invoked[1].model \in {MODEL_CLIENTS[k] : k \in 1..Len(MODEL_CLIENTS)}
        /\ Len(EventsOfType("chunk")) = Len(NonEmptyFragments)
        /\ \A i \in 1..(Len(events) - 1) : events[i].type \in {"status", "chunk"}

\* the provider raised before any chunk: the stream is a status and the result
C24_WitnessAtOnce ==
    /\ DirectStreamFailed
    /\ EventsOfType("chunk") = <<>>
    /\ LastEvent.type = "result"

\* the provider raised after two chunk events
C24_Witness ==
    /\ DirectStreamFailed
    /\ Len(EventsOfType("chunk")) = 2
    /\ LastEvent.type = "result"
    /\ Embeds(<<"boom">>, LastEvent.message.content)

(***************************************************************************)
(* C25: chat dispatches on its flags: a request invokes at most one        *)
(* backend, at most once; what it invokes is the agent graph if and only   *)
(* if use_agent is set, the direct model otherwise; it is answered by a    *)
(* stream of events if and only if stream is set, by one ChatResponse      *)
(* otherwise, whatever use_agent is.                                       *)
(***************************************************************************)
C25_DispatchOnFlags ==
    request.endpoint = "chat" =>
        /\ Len(invoked) <= 1
        /\ \A i \in 1..Len(invoked) :
              /\ invoked[i].backend = "agt_graph" <=> request.use_agent
              /\ invoked[i].backend \in {"model", "astream"} <=> ~request.use_agent
              /\ invoked[i].backend = "astream" => request.stream
              /\ invoked[i].backend = "model" => ~request.stream
        /\ IF request.stream
           THEN /\ response = [message |-> [role |-> "", content |-> <<>>],
                               thread_id |-> "<absent>"]
                /\ pc = "done" => events # <<>>
           ELSE /\ events = <<>>
                /\ pc = "done" => response.message.role = "assistant"

\* a stream of chat with use_agent: one invocation, of the agent graph, events
\* and no ChatResponse
C25_Witness ==
    /\ request.endpoint = "chat"
    /\ request.stream
    /\ request.use_agent
    /\ pc = "done"
    /\ Len(invoked) = 1
    /\ invoked[1].backend = "agt_graph"
    /\ EventsOfType("chunk") # <<>>
    /\ response = NoResponse

(***************************************************************************)
(* C26: with two requests handled concurrently, under any interleaving at  *)
(* the suspension points, each request's events and reply are the ones of  *)
(* its own handler: a step of one handler leaves the other handler's       *)
(* locals as they are and only appends to its own events, a switch of the  *)
(* event loop restores every local of the resumed handler, every event and *)
(* reply carries the thread id of its own request, and no step, model      *)
(* fallback included, modifies the registry.                               *)
(***************************************************************************)
\* the events and the reply of a handler carry the thread id of its request
OwnOutputs(frame) ==
    LET own == IF frame.request.thread_id \in {NoneValue, ""}
               THEN NewUuid ELSE frame.request.thread_id
    IN  /\ \A i \in 1..Len(frame.events) : frame.events[i].thread_id \in {Absent, own}
        /\ frame.response.thread_id \in {Absent, own}

IsolatedOutputs == OwnOutputs(Frame) /\ OwnOutputs(parked)

\* a step is a switch that exchanges the two frames, or a step of the running
\* handler that appends at most one event to its own events
IsolatedStep ==
    /\ MODEL_CLIENTS' = MODEL_CLIENTS
    /\ IF parked' # parked
       THEN parked' = Frame /\ Frame' = parked
       ELSE \/ events' = events
            \/ /\ Len(events') = Len(events) + 1
               /\ SubSeq(events', 1, Len(events)) = events

C26_HandlersIsolated ==
    []IsolatedOutputs /\ [][IsolatedStep]_vars

\* both handlers have ended their streams, one after the fallback to the
\* first-registered model, with chunk events under their own thread ids
C26_Witness ==
    /\ pc = "done"
    /\ parked.pc = "done"
    /\ request.thread_id = "t1"
    /\ parked.request.thread_id = "t2"
    /\ MODEL_CLIENTS # <<>>
    /\ model = MODEL_CLIENTS[1]
    /\ request.model # model
    /\ \E i \in 1..Len(events) : events[i].type = "chunk" /\ events[i].thread_id = "t1"
    /\ \E i \in 1..Len(parked.events) :
          parked.events[i].type = "chunk" /\ parked.events[i].thread_id = "t2"

\* a source that has a url
HasUrl(source) == source.url # <<>>

\* the title of a link as the text describes it: the stripped title whole when
\* it has at most 60 characters, else its first 57 characters and "..."
RenderedTitle(title) ==
    LET t == Strip(title)
    IN  IF Len(t) > 60 THEN SubSeq(t, 1, 57) \o <<".", ".", ".">> ELSE t

\* the links of the sources that have a url, one per line
RenderedLinks(list) ==
    LET kept == SelectSeq(list, HasUrl)
    IN  [i \in 1..Len(kept) |->
           <<"[">> \o RenderedTitle(kept[i].title) \o <<"]", "(">> \o kept[i].url \o <<")">>]

\* C27: format_source_urls renders one link per source that has a url, in
\* order, under the Sources header; the title of a link has at most 60
\* characters: a stripped title of more than 60 characters is cut to its
\* first 57 characters followed by "...", a shorter one is left whole; a
\* source with an empty url gets no link.
C27_TitlesAtMostSixty ==
    pc = "formatted" =>
        /\ \A i \in 1..Len(sources) : Len(RenderedTitle(sources[i].title)) <= 60
        /\ response_content =
             IF RenderedLinks(sources) = <<>> THEN <<>>
             ELSE SourcesHeader \o JoinLines(RenderedLinks(sources))

\* a call with a padded title of 61 characters and a url, and a source
\* without a url
C27_Witness ==
    /\ pc = "formatted"
    /\ Len(sources) = 2
    /\ sources[1].url # <<>>
    /\ Len(Strip(sources[1].title)) = 61
    /\ Len(sources[1].title) = 63
    /\ sources[2].url = <<>>
    /\ response_content # <<>>

\* the candidates of the fallback model, in order, with their mapped names
FallbackChoices ==
    << [id |-> "gpt-4o-mini", mapped |-> "openai/gpt-4o-mini"],
       [id |-> "gemini-1.5-flash", mapped |-> "google/gemini-1.5-flash"],
       [id |-> "llama-3.3-70b-versatile", mapped |-> "groq/llama-3.3-70b-versatile"] >>

\* candidate k is registered and its mapped name differs from the primary
Qualifies(k, primary) ==
    IsRegisteredName(FallbackChoices[k].id) /\ FallbackChoices[k].mapped # primary

\* the invocations of the react agent made by react-search (sync)
ReactSyncInvocations ==
    { i \in 1..Len(invoked) :
        request.endpoint = "react-search" /\ invoked[i].backend = "react_graph" }

\* C28: in react-search (sync) the fallback model of the agent configuration
\* is never the primary agent model: it is the mapped name of the first of
\* gpt-4o-mini, gemini-1.5-flash, llama-3.3-70b-versatile that is registered
\* and whose mapped name differs from the primary, and no fallback is set
\* when no candidate qualifies.
C28_FallbackDiffersFromPrimary ==
    \A i \in ReactSyncInvocations :
        LET primary == invoked[i].model
            qualified == { k \in 1..Len(FallbackChoices) : Qualifies(k, primary) }
        IN  /\ invoked[i].fallback # primary
            /\ IF qualified = {} THEN invoked[i].fallback = NoneValue
               ELSE \E k \in qualified :
                        /\ \A j \in qualified : k <= j
                        /\ invoked[i].fallback = FallbackChoices[k].mapped

\* the second candidate is the primary and the third one becomes the fallback
C28_Witness ==
    /\ ReactSyncInvocations # {}
    /\ ~IsRegisteredName("gpt-4o-mini")
    /\ invoked[1].model = "google/gemini-1.5-flash"
    /\ invoked[1].fallback = "groq/llama-3.3-70b-versatile"

\* the stream of an agent-backed request was closed while the offloaded
\* invocation was still running
OrphanedInvocation ==
    /\ pc = "closed"
    /\ agent_task = "running"
    /\ invoked[Len(invoked)].backend \in {"agt_graph", "react_graph"}

\* the offloaded invocation finishes with one of the agent's outcomes
AgentCompletes == \E outcome \in AllOutcomes : InvocationCompletes(outcome)

\* a step taken at or into a closed stream: the task keeps its status, or is
\* the running task that finishes; no event and no response is produced
\* from its result
ClosureKeepsTask ==
    pc' = "closed" =>
        \/ agent_task' = agent_task
        \/ /\ pc = "closed"
           /\ agent_task = "running"
           /\ agent_task' = "done"
           /\ events' = events
           /\ response' = response

\* C29: after the client disconnects during agent-backed streaming the
\* offloaded agent invocation is not cancelled: closing the stream leaves the
\* task as it was, a task still running can run on to completion, and its
\* result goes into no event.
C29_TaskSurvivesDisconnect ==
    /\ [](OrphanedInvocation => ENABLED AgentCompletes)
    /\ [][ClosureKeepsTask]_vars

\* the client left during the polling loop of an agent-backed stream and
\* the invocation is still running
C29_Witness ==
    /\ OrphanedInvocation
    /\ EventsOfType("status") # <<>>
    /\ EventsOfType("result") = <<>>

(***************************************************************************)
(* C30: for the same request and the same agent result, whenever the react *)
(* agent returns normally, the content of the result event of              *)
(* react-search-streaming is the reply content of react-search (sync),     *)
(* the no-messages placeholder and the appended Sources section included.  *)
(* Fails: for a result whose last message has no content attribute the     *)
(* extraction raises; react_agent_search answers with the research-agent   *)
(* error text, the event_generator with the generic error text.            *)
(***************************************************************************)
\* a stream of react-search-streaming that ended after the agent returned
ReactStreamReturned ==
    /\ request.endpoint = "react-search-streaming"
    /\ pc = "done"
    /\ agent_task = "done"
    /\ ~agent_outcome.raised

\* the reply content of react_agent_search for the agent result of the stream
SyncReplyContent == ReactSearchReply(agent_outcome, thread_id).message.content

C30_StreamResultEqualsSyncReply ==
    ReactStreamReturned =>
        /\ events # <<>>
        /\ LastEvent.type = "result"
        /\ LastEvent.message.content = SyncReplyContent
====
